---- MODULE Spec2Model ----
(***************************************************************************)
(* Model of the Reddit post -> structured deal extraction pipeline of      *)
(* backend/src/services/reddit/parser.ts.                                  *)
(*                                                                         *)
(* Text is a sequence of characters, each character a string: an ASCII     *)
(* character stands for itself, any other character is written by its code *)
(* point ("U+201A").  The regular expressions of the source are operators  *)
(* over such sequences, written out position by position.                  *)
(*                                                                         *)
(* Amounts of money are counted in hundredths (199 is 19900, 0.5 is 50),   *)
(* so that the optional two-digit fraction of an amount is an integer.     *)
(***************************************************************************)
EXTENDS Integers, Sequences, FiniteSets, TLC

VARIABLES
    pc,               \* position of the call under way
    post,             \* the RedditPost: title, selftext, is_self, url, permalink
    comments,         \* the comment bodies handed to parseRedditPost
    fullText,         \* `${post.title} ${post.selftext}`, or the text argument
    productUrl,
    dealPrice,
    originalPrice,
    currency,
    discountPercent,
    store,
    categorySlug,
    imageUrl,
    title,            \* cleanTitle's result
    result,           \* what parseRedditPost returned: "none", "null", "deal",
                      \* or "rejected" when its promise rejects
    response,         \* what fetch and response.text() came to in fetchOgImage
    posts,            \* the posts handed to parseRedditPosts
    tasks,            \* the callback of posts.map, one for each post
    deals,            \* the promise parseRedditPosts returned
    timer,            \* the 3 s timer of fetchOgImage: "none", "armed",
                      \* "cleared", "fired"
    db,               \* the database: the rows of Deal by id, the slugs of Category
    job,              \* the run of the title-classification job
    api               \* the calls of classifyDeal and the delays after them

vars == <<pc, post, comments, fullText, productUrl, dealPrice, originalPrice,
          currency, discountPercent, store, categorySlug, imageUrl, title,
          result, response, posts, tasks, deals, timer, db, job, api>>

\* the variables of the title-classification job
classifier == <<db, job, api>>

(***************************************************************************)
(* Values                                                                  *)
(***************************************************************************)
\* JavaScript's null, for a number or a string that is absent
Null == -1
\* parseFloat's NaN
NaN == -2

\* An amount of whole units, in hundredths
Units(n) == n * 100

(***************************************************************************)
(* Characters and strings                                                  *)
(***************************************************************************)
Digits == <<"0", "1", "2", "3", "4", "5", "6", "7", "8", "9">>
\* the value of each digit
DigitOf == [c \in {Digits[d] : d \in 1..10} |-> (CHOOSE d \in 1..10 : Digits[d] = c) - 1]
IsDigit(c) == c \in DOMAIN DigitOf
DigitVal(c) == DigitOf[c]

UpperCase == <<"A","B","C","D","E","F","G","H","I","J","K","L","M",
               "N","O","P","Q","R","S","T","U","V","W","X","Y","Z">>
LowerCase == <<"a","b","c","d","e","f","g","h","i","j","k","l","m",
               "n","o","p","q","r","s","t","u","v","w","x","y","z">>

\* the lower-case letter of each upper-case letter, and the reverse
ToLower == [c \in {UpperCase[k] : k \in 1..26} |->
               LowerCase[CHOOSE k \in 1..26 : UpperCase[k] = c]]
ToUpper == [c \in {LowerCase[k] : k \in 1..26} |->
               UpperCase[CHOOSE k \in 1..26 : LowerCase[k] = c]]

\* String.prototype.toLowerCase / toUpperCase, one character at a time
LowerChar(c) == IF c \in DOMAIN ToLower THEN ToLower[c] ELSE c
UpperChar(c) == IF c \in DOMAIN ToUpper THEN ToUpper[c] ELSE c
toLowerCase(s) == [k \in 1..Len(s) |-> LowerChar(s[k])]

\* \s of a regular expression
IsSpace(c) == c \in {" ", "\t", "\n", "\r"}
\* . of a regular expression (no line terminator)
IsDot(c) == c \notin {"\n", "\r"}
\* [\d,]
IsDigitComma(c) == IsDigit(c) \/ c = ","

\* the literal lit stands in s at position i (ci: the /i flag)
HasAt(s, i, lit, ci) ==
    /\ i >= 1
    /\ i + Len(lit) - 1 <= Len(s)
    /\ \A k \in 1..Len(lit) :
          IF ci THEN LowerChar(s[i + k - 1]) = LowerChar(lit[k])
                ELSE s[i + k - 1] = lit[k]

\* String.prototype.includes
includes(s, lit) ==
    \/ lit = <<>>
    \/ \E i \in 1..(Len(s) - Len(lit) + 1) : s[i] = lit[1] /\ HasAt(s, i, lit, FALSE)
\* /lit/i.test(s)
includesI(s, lit) ==
    \/ lit = <<>>
    \/ \E i \in 1..(Len(s) - Len(lit) + 1) :
          LowerChar(s[i]) = LowerChar(lit[1]) /\ HasAt(s, i, lit, TRUE)

Least(S) == CHOOSE i \in S : \A j \in S : i <= j
Min(a, b) == IF a <= b THEN a ELSE b
Max(a, b) == IF a >= b THEN a ELSE b

RECURSIVE SkipSpaces(_, _)
\* the position after the longest run of spaces that starts at i (\s*)
SkipSpaces(s, i) ==
    IF i <= Len(s) /\ IsSpace(s[i]) THEN SkipSpaces(s, i + 1) ELSE i

RECURSIVE SkipDigitComma(_, _)
\* the position after the longest run of [\d,] that starts at i ([\d,]+)
SkipDigitComma(s, i) ==
    IF i <= Len(s) /\ IsDigitComma(s[i]) THEN SkipDigitComma(s, i + 1) ELSE i

RECURSIVE LineEnd(_, _)
\* the position of the first line terminator at or after i, or Len(s) + 1:
\* how far a .*? that starts at i can reach
LineEnd(s, i) ==
    IF i <= Len(s) /\ IsDot(s[i]) THEN LineEnd(s, i + 1) ELSE i

\* the characters of s from i to j - 1
Slice(s, i, j) == SubSeq(s, i, j - 1)

RECURSIVE Flatten(_)
Flatten(ss) == IF ss = <<>> THEN <<>> ELSE Head(ss) \o Flatten(Tail(ss))

\* String.prototype.trim
trim(s) ==
    IF \A k \in 1..Len(s) : IsSpace(s[k]) THEN <<>>
    ELSE LET a == Least({k \in 1..Len(s) : ~IsSpace(s[k])})
             b == CHOOSE k \in 1..Len(s) :
                     /\ ~IsSpace(s[k])
                     /\ \A m \in (k + 1)..Len(s) : IsSpace(s[m])
         IN  SubSeq(s, a, b)

(***************************************************************************)
(* parseFloat(match.replace(/,/g, "")) of an amount [\d,]+(?:\.\d{2})?     *)
(***************************************************************************)
RECURSIVE DigitsValue(_, _)
\* the number written by the digits of s, its commas left out
DigitsValue(s, acc) ==
    IF s = <<>> THEN acc
    ELSE IF IsDigit(Head(s)) THEN DigitsValue(Tail(s), acc * 10 + DigitVal(Head(s)))
    ELSE DigitsValue(Tail(s), acc)

\* whole: the [\d,]+ part; frac: the two digits of (?:\.\d{2}), or <<>>
parseFloat(whole, frac) ==
    IF (\A k \in 1..Len(whole) : ~IsDigit(whole[k])) /\ frac = <<>>
    THEN NaN
    ELSE Units(DigitsValue(whole, 0)) + DigitsValue(frac, 0)

(***************************************************************************)
(* Currency markers.  A marker is a literal, matched with or without the   *)
(* /i flag, and at most one optional character after it (the \.? of Rs\.?).*)
(* The markers are the characters the source file holds.                   *)
(***************************************************************************)
Marker(lit, ci, opt) == [lit |-> lit, ci |-> ci, opt |-> opt]

CURRENCY_PATTERNS == <<
    [currency |-> "USD", pattern |-> Marker(<<"$">>, FALSE, <<>>)],
    [currency |-> "EUR", pattern |-> Marker(<<"U+201A", "U+00C7", "U+00A8">>, FALSE, <<>>)],
    [currency |-> "GBP", pattern |-> Marker(<<"U+00AC", "U+00A3">>, FALSE, <<>>)],
    [currency |-> "CAD", pattern |-> Marker(<<"C", "$">>, TRUE, <<>>)],
    [currency |-> "CAD", pattern |-> Marker(<<"C", "A", "D">>, TRUE, <<>>)],
    [currency |-> "AUD", pattern |-> Marker(<<"A", "$">>, TRUE, <<>>)],
    [currency |-> "AUD", pattern |-> Marker(<<"A", "U", "D">>, TRUE, <<>>)],
    [currency |-> "INR", pattern |-> Marker(<<"U+201A", "U+00C7", "U+03C0">>, FALSE, <<>>)],
    [currency |-> "INR", pattern |-> Marker(<<"R", "s">>, TRUE, <<".">>)],
    [currency |-> "INR", pattern |-> Marker(<<"I", "N", "R">>, TRUE, <<>>)] >>

\* the position after marker m standing at i, or 0 when it does not stand there
MarkerEnd(s, i, m) ==
    IF ~HasAt(s, i, m.lit, m.ci) THEN 0
    ELSE IF m.opt # <<>> /\ HasAt(s, i + Len(m.lit), m.opt, FALSE)
    THEN i + Len(m.lit) + 1
    ELSE i + Len(m.lit)

\* [\d,]+ at a: a itself, or 0
DigitCommaAt(s, a) == IF a <= Len(s) /\ IsDigitComma(s[a]) THEN a ELSE 0

\* \s* [\d,]+ after a marker that ends before e: the position of the first
\* [\d,], or 0
AmountAfter(s, e) == IF e = 0 THEN 0 ELSE DigitCommaAt(s, SkipSpaces(s, e))

\* marker \s* [\d,]+ at i: the position of the first [\d,], or 0
AmountStart(s, i, m) == AmountAfter(s, MarkerEnd(s, i, m))

\* the (?:\.\d{2})? that may follow the [\d,]+ ending before e
Fraction(s, e) ==
    IF e + 2 <= Len(s) /\ s[e] = "." /\ IsDigit(s[e + 1]) /\ IsDigit(s[e + 2])
    THEN Slice(s, e + 1, e + 3)
    ELSE <<>>

\* parseFloat of the amount [\d,]+(?:\.\d{2})? whose [\d,]+ runs from a to e - 1
AmountBetween(s, a, e) == parseFloat(Slice(s, a, e), Fraction(s, e))
AmountAt(s, a) == AmountBetween(s, a, SkipDigitComma(s, a))

\* the amount of the first of the places where the pattern matches, or Null
FirstAmount(s, m, places) ==
    IF places = {} THEN Null ELSE AmountAt(s, AmountStart(s, Least(places), m))

\* text.match(/marker\s*([\d,]+(?:\.\d{2})?)/): the amount captured by the
\* first match, or Null when the pattern does not match
MatchedPrice(s, m) ==
    FirstAmount(s, m, {i \in 1..Len(s) : AmountStart(s, i, m) # 0})

\* !isNaN(price) && price > 0 && price < 10000000
PriceLimit == 10000000
InRange(price) == price # NaN /\ price > 0 /\ price < Units(PriceLimit)

\* the patterns whose first match is a price in range
PriceHits(prices) ==
    {k \in 1..Len(CURRENCY_PATTERNS) : prices[k] # Null /\ InRange(prices[k])}

\* no currency reported when no price is found
PickPriceOnly(prices, hits) ==
    IF hits = {} THEN [price |-> Null, currency |-> "null"]
    ELSE [price |-> prices[Least(hits)],
          currency |-> CURRENCY_PATTERNS[Least(hits)].currency]

\* the first of them, or the default: USD for WORLD
PickPrice(prices, hits) ==
    IF hits = {} THEN [price |-> Null, currency |-> "USD"]
    ELSE [price |-> prices[Least(hits)],
          currency |-> CURRENCY_PATTERNS[Least(hits)].currency]

PriceAmong(prices) == PickPrice(prices, PriceHits(prices))

\* Extract price and currency from text
extractPriceWithCurrency(text) ==
    PriceAmong([k \in 1..Len(CURRENCY_PATTERNS) |->
                   MatchedPrice(text, CURRENCY_PATTERNS[k].pattern)])

(***************************************************************************)
(* The pair patterns:                                                      *)
(*   first \s* ([\d,]+) .*? (?:keyword) .*? second \s* ([\d,]+)   with /i   *)
(***************************************************************************)
Keywords ==
    << <<"w", "a", "s">>, <<"f", "r", "o", "m">>,
       <<"o", "r", "i", "g", "i", "n", "a", "l">>, <<"r", "e", "g">> >>
KeywordsMrp == << <<"m", "r", "p">> >> \o Keywords

\* the /i flag of a pair pattern reaches its markers too
AnyCase(m) == [m EXCEPT !.ci = TRUE]

\* The second rupee sign of the fourth pattern is optional: its ? binds the
\* last of the characters the source file holds for it.
dealPatterns == <<
    [first |-> AnyCase(Marker(<<"$">>, FALSE, <<>>)),
     second |-> AnyCase(Marker(<<"$">>, FALSE, <<>>)),
     keywords |-> Keywords, currency |-> "USD"],
    [first |-> AnyCase(Marker(<<"U+201A", "U+00C7", "U+00A8">>, FALSE, <<>>)),
     second |-> AnyCase(Marker(<<"U+201A", "U+00C7", "U+00A8">>, FALSE, <<>>)),
     keywords |-> Keywords, currency |-> "EUR"],
    [first |-> AnyCase(Marker(<<"U+00AC", "U+00A3">>, FALSE, <<>>)),
     second |-> AnyCase(Marker(<<"U+00AC", "U+00A3">>, FALSE, <<>>)),
     keywords |-> Keywords, currency |-> "GBP"],
    [first |-> AnyCase(Marker(<<"U+201A", "U+00C7", "U+03C0">>, FALSE, <<>>)),
     second |-> AnyCase(Marker(<<"U+201A", "U+00C7">>, FALSE, <<"U+03C0">>)),
     keywords |-> KeywordsMrp, currency |-> "INR"],
    [first |-> AnyCase(Marker(<<"R", "s">>, TRUE, <<".">>)),
     second |-> AnyCase(Marker(<<"R", "s">>, TRUE, <<".">>)),
     keywords |-> KeywordsMrp, currency |-> "INR"] >>

\* no line terminator in s from i to j - 1: .*? can span it
DotSpan(s, i, j) == \A k \in i..(j - 1) : IsDot(s[k])

\* the position after the first of the keywords `here` standing at p, or 0
KeywordEndOf(p, kws, here) == IF here = {} THEN 0 ELSE p + Len(kws[Least(here)])

\* the position after a keyword of kws standing at p, or 0
KeywordEnd(s, p, kws) ==
    KeywordEndOf(p, kws, {n \in 1..Len(kws) : HasAt(s, p, kws[n], TRUE)})

\* .*? second \s* [\d,]+ after a keyword that ends before k: the positions
\* of a second marker, on the same line, with an amount
SecondsAfter(s, k, dp) ==
    IF k = 0 THEN {}
    ELSE {q \in k..Min(LineEnd(s, k), Len(s)) : AmountStart(s, q, dp.second) # 0}

\* the same, for the keyword at p
Seconds(s, p, dp) == SecondsAfter(s, KeywordEnd(s, p, dp.keywords), dp)

\* .*? keyword after the first amount, which ends before e: the positions of
\* a keyword, on the same line, after which the rest matches
Firsts(s, e, dp) ==
    {p \in e..Min(LineEnd(s, e), Len(s)) : Seconds(s, p, dp) # {}}

\* <<match[1], match[2]>>: the first group from a to e - 1, the second at a2
PairGroups(s, a, e, a2) ==
    <<Slice(s, a, e), Slice(s, a2, SkipDigitComma(s, a2))>>

\* Both .*? are lazy: the earliest keyword, then the earliest second marker
PairAtKeyword(s, a, e, dp, firsts) ==
    IF firsts = {} THEN <<>>
    ELSE PairGroups(s, a, e,
             AmountStart(s, Least(Seconds(s, Least(firsts), dp)), dp.second))

\* The first group is the whole run of [\d,] from a: giving some of it back
\* to .*? opens no keyword position.
PairFromAmount(s, a, dp) ==
    IF a = 0 THEN <<>>
    ELSE PairAtKeyword(s, a, SkipDigitComma(s, a), dp,
                       Firsts(s, SkipDigitComma(s, a), dp))

\* The match of the pattern from start i, as <<match[1], match[2]>>, or <<>>
\* when it does not match there
PairFrom(s, i, dp) == PairFromAmount(s, AmountStart(s, i, dp.first), dp)

\* the match from the first of the places where the pattern matches, or <<>>
FirstPair(from, places) == IF places = {} THEN <<>> ELSE from[Least(places)]
PairAmong(from) == FirstPair(from, {i \in DOMAIN from : from[i] # <<>>})

\* text.match(pattern) of a pair pattern: <<match[1], match[2]>>, or <<>>
PairMatch(s, dp) == PairAmong([i \in 1..Len(s) |-> PairFrom(s, i, dp)])

\* the pair patterns that match with two numbers
PairHits(matches) ==
    {k \in 1..Len(dealPatterns) :
        /\ matches[k] # <<>>
        /\ parseFloat(matches[k][1], <<>>) # NaN
        /\ parseFloat(matches[k][2], <<>>) # NaN}

\* the pair taken in the order of the text
PairPricesInOrder(price1, price2, cur) ==
    [dealPrice |-> price1, originalPrice |-> price2, currency |-> cur]

\* dealPrice: Math.min(price1, price2), originalPrice: Math.max(price1, price2)
PairPrices(price1, price2, cur) ==
    [dealPrice |-> Min(price1, price2), originalPrice |-> Max(price1, price2),
     currency |-> cur]

\* Just extract single price with currency
SinglePrice(r) == [dealPrice |-> r.price, originalPrice |-> Null, currency |-> r.currency]

PickPrices(text, matches, hits) ==
    IF hits # {}
    THEN PairPrices(parseFloat(matches[Least(hits)][1], <<>>),
                    parseFloat(matches[Least(hits)][2], <<>>),
                    dealPatterns[Least(hits)].currency)
    ELSE SinglePrice(extractPriceWithCurrency(text))

PricesAmong(text, matches) == PickPrices(text, matches, PairHits(matches))

\* text.match(pattern) for each of dealPatterns
PairMatches(text) ==
    [k \in 1..Len(dealPatterns) |-> PairMatch(text, dealPatterns[k])]

\* Extract deal price and original price with currency
extractPrices(text) == PricesAmong(text, PairMatches(text))

(***************************************************************************)
(* extractDiscount                                                         *)
(***************************************************************************)

\* (\d{1,2}) at i takes two digits when two stand there: with one digit given
\* back, the next character is a digit, which neither \s* nor % matches
DiscountDigits(s, i) ==
    IF i + 1 <= Len(s) /\ IsDigit(s[i + 1]) THEN 2 ELSE 1

\* (?:off|discount) at k
DiscountWordAt(s, k) ==
    \/ HasAt(s, k, <<"o", "f", "f">>, TRUE)
    \/ HasAt(s, k, <<"d", "i", "s", "c", "o", "u", "n", "t">>, TRUE)

\* %\s*(?:off|discount) at j
PercentAt(s, j) ==
    j <= Len(s) /\ s[j] = "%" /\ DiscountWordAt(s, SkipSpaces(s, j + 1))

\* /(\d{1,2})\s*%\s*(?:off|discount)/i matches at i
DiscountAt(s, i) ==
    IsDigit(s[i]) /\ PercentAt(s, SkipSpaces(s, i + DiscountDigits(s, i)))

DiscountPlaces(s) == {i \in 1..Len(s) : DiscountAt(s, i)}

\* parseInt(discountMatch[1]) of the match at i
DiscountValue(s, i) == DigitsValue(Slice(s, i, i + DiscountDigits(s, i)), 0)

\* parseInt(discountMatch[1]) of the first match
DiscountMatch(s) == DiscountValue(s, Least(DiscountPlaces(s)))

\* JavaScript truthiness of a number | null
Truthy(n) == n # Null /\ n # NaN /\ n # 0

\* The halves k + 1/2 at which the double ((2k + 1) / 200) * 100 falls below
\* k + 1/2, so that Math.round gives k: 0.145 * 100 is 14.499999999999998.
\* At every other half, and off the halves, the double rounds as the exact
\* quotient does.
HalfRoundsDown == {14, 28, 56, 57}

\* the nearest integer to 100 (o - d) / o, where up is the exact quotient
\* rounded with a half up
RoundDouble(d, o, up) ==
    IF 200 * (o - d) + o = 2 * o * up /\ (up - 1) \in HalfRoundsDown
    THEN up - 1
    ELSE up

RoundExact(d, o) == RoundDouble(d, o, (200 * (o - d) + o) \div (2 * o))

\* Math.round(((originalPrice - dealPrice) / originalPrice) * 100): the nearest
\* integer, a half rounded up.  Whole amounts are scaled down first; the
\* quotient does not change.
RoundPercent(deal, original) ==
    IF deal % 100 = 0 /\ original % 100 = 0
    THEN RoundExact(deal \div 100, original \div 100)
    ELSE RoundExact(deal, original)

\* a discount of 0 taken as a discount
AcceptedFromZero(discount) ==
    IF discount >= 0 /\ discount <= 100 THEN discount ELSE Null

\* if (discount > 0 && discount <= 100) return discount
Accepted(discount) == IF discount > 0 /\ discount <= 100 THEN discount ELSE Null

\* the value the explicit phrase gives, or Null
ExplicitDiscount(text) ==
    IF DiscountPlaces(text) = {} THEN Null ELSE Accepted(DiscountMatch(text))

\* the value the prices give, or Null
DerivedDiscount(deal, original) ==
    IF Truthy(deal) /\ Truthy(original) /\ original > deal
    THEN Accepted(RoundPercent(deal, original))
    ELSE Null

\* Try explicit discount percentage; calculate from prices if available
FirstDiscount(explicit, derived) == IF explicit # Null THEN explicit ELSE derived

\* Extract discount percentage
extractDiscount(text, deal, original) ==
    FirstDiscount(ExplicitDiscount(text), DerivedDiscount(deal, original))

(***************************************************************************)
(* cleanTitle                                                              *)
(***************************************************************************)

\* word \s+ at i: the position after the spaces, or 0
WordSpaces(s, i, w) ==
    IF i # 0 /\ HasAt(s, i, w, TRUE) /\ SkipSpaces(s, i + Len(w)) > i + Len(w)
    THEN SkipSpaces(s, i + Len(w))
    ELSE 0

\* word at i: the position after it, or 0
Word(s, i, w) == IF i # 0 /\ HasAt(s, i, w, TRUE) THEN i + Len(w) ELSE 0

\* (link\s+in\s+comments|check\s+comments|see\s+below|read\s+caption) at i:
\* the position after the match, or 0.  The alternatives start with different
\* letters, at most one matches.
PhraseEnd(s, i) ==
    Max(Max(Word(s, WordSpaces(s, WordSpaces(s, i, <<"l", "i", "n", "k">>),
                               <<"i", "n">>),
                 <<"c", "o", "m", "m", "e", "n", "t", "s">>),
            Word(s, WordSpaces(s, i, <<"c", "h", "e", "c", "k">>),
                 <<"c", "o", "m", "m", "e", "n", "t", "s">>)),
        Max(Word(s, WordSpaces(s, i, <<"s", "e", "e">>),
                 <<"b", "e", "l", "o", "w">>),
            Word(s, WordSpaces(s, i, <<"r", "e", "a", "d">>),
                 <<"c", "a", "p", "t", "i", "o", "n">>)))

RECURSIVE RemovePhrases(_, _)
\* the rest of s after the phrase, if any, that ends before e
RemovePhraseAt(s, i, e) ==
    IF e # 0 THEN RemovePhrases(s, e) ELSE <<s[i]>> \o RemovePhrases(s, i + 1)

\* .replace(/(link\s+in\s+comments|...)/gi, "") from position i on
RemovePhrases(s, i) ==
    IF i > Len(s) THEN <<>> ELSE RemovePhraseAt(s, i, PhraseEnd(s, i))

HypeWords == << <<"h", "u", "g", "e">>, <<"m", "e", "g", "a">>,
                <<"s", "u", "p", "e", "r">>, <<"b", "u", "m", "p", "e", "r">> >>
HypeNouns == << <<"d", "e", "a", "l">>, <<"s", "a", "l", "e">>,
                <<"d", "i", "s", "c", "o", "u", "n", "t">>,
                <<"o", "f", "f", "e", "r">> >>

RECURSIVE SkipSeparators(_, _)
\* the position after the longest run of [\s:-] that starts at i
SkipSeparators(s, i) ==
    IF i <= Len(s) /\ (IsSpace(s[i]) \/ s[i] \in {":", "-"})
    THEN SkipSeparators(s, i + 1)
    ELSE i

\* s? at e: the position after it
PluralEnd(s, e) == IF e <= Len(s) /\ LowerChar(s[e]) = "s" THEN e + 1 ELSE e

\* s?[\s:-]* after the two words, which end before one of ends
HypeTail(s, ends) ==
    IF ends = {} THEN 0 ELSE SkipSeparators(s, PluralEnd(s, Least(ends)))

\* ^(huge|mega|super|bumper)\s+(deal|sale|discount|offer)s?[\s:-]* : the
\* position after the match at the start of s, or 0
HypeEnd(s) ==
    HypeTail(s, {Word(s, WordSpaces(s, 1, HypeWords[a]), HypeNouns[b]) :
                    a \in 1..Len(HypeWords), b \in 1..Len(HypeNouns)} \ {0})

\* s without its first characters, up to e - 1
DropTo(s, e) == IF e = 0 THEN s ELSE Slice(s, e, Len(s) + 1)

\* .replace(/^(huge|mega|super|bumper)\s+(deal|sale|discount|offer)s?[\s:-]*/i, "")
RemoveHype(s) == DropTo(s, HypeEnd(s))

\* The characters of the model's alphabet in [\u{1F300}-\u{1F9FF}] and
\* [\u{2700}-\u{27BF}]: fire, party popper, police light; sparkles
EmojiRange == {"U+1F525", "U+1F389", "U+1F6A8", "U+2728"}
\* The characters of the model's alphabet above U+FFFF: two UTF-16 units each
Astral == {"U+1F525", "U+1F389", "U+1F6A8", "U+1F1EE"}
\* The characters of the second class, as the source file holds them
SymbolClass == {"U+201A", "U+00F6", "U+00B0", "U+F8FF", "U+00FC", "U+00EE",
                "U+2022", "U+00AE", "U+2020", "U+00D4", "U+220F", "U+00E8",
                "U+00FA", "U+00E9", "U+00E2"}

\* String.prototype.length: UTF-16 units
length(s) == Len(s) + Cardinality({k \in 1..Len(s) : s[k] \in Astral})

\* no character removed
KeepChars(s, class) == s

\* .replace(/[class]/g, "")
RemoveChars(s, class) == SelectSeq(s, LAMBDA c : c \notin class)

IsEdge(c) == IsSpace(c) \/ c \in {"!", "-", "|"}

\* .replace(/^[!\s\-\|]+|[!\s\-\|]+$/g, "")
StripEdges(s) ==
    IF \A k \in 1..Len(s) : IsEdge(s[k]) THEN <<>>
    ELSE LET a == Least({k \in 1..Len(s) : ~IsEdge(s[k])})
             b == CHOOSE k \in 1..Len(s) :
                     /\ ~IsEdge(s[k])
                     /\ \A m \in (k + 1)..Len(s) : IsEdge(s[m])
         IN  SubSeq(s, a, b)

RECURSIVE CollapseSpaces(_, _)
\* .replace(/\s{2,}/g, " ") from position i on
CollapseSpaces(s, i) ==
    IF i > Len(s) THEN <<>>
    ELSE IF IsSpace(s[i]) /\ SkipSpaces(s, i) >= i + 2
         THEN <<" ">> \o CollapseSpaces(s, SkipSpaces(s, i))
    ELSE <<s[i]>> \o CollapseSpaces(s, i + 1)

\* the chain of replacements of cleanTitle, before the length test
Cleaned(raw) ==
    trim(CollapseSpaces(
        StripEdges(RemoveChars(RemoveChars(RemoveHype(RemovePhrases(raw, 1)),
                                           EmojiRange), SymbolClass)), 1))

\* cleaned.charAt(0).toUpperCase() + cleaned.slice(1)
Capitalize(s) == IF s = <<>> THEN s ELSE <<UpperChar(s[1])>> \o Tail(s)

\* the shortest cleaned title cleanTitle keeps
MinTitleLength == 5

\* the cleaned title returned whatever its length
AlwaysCleaned(raw, cleaned) == Capitalize(cleaned)

\* if (cleaned.length < 5) return title.trim()
KeepOrRaw(raw, cleaned) ==
    IF length(cleaned) < MinTitleLength THEN trim(raw) ELSE Capitalize(cleaned)

\* Clean title (remove "link in comments", emojis, excessive whitespace)
cleanTitle(raw) == KeepOrRaw(raw, Cleaned(raw))

(***************************************************************************)
(* The merchant registry.  Every pattern is a literal, matched anywhere in *)
(* the URL under the /i flag.                                              *)
(***************************************************************************)
STORE_PATTERNS == <<
    [store |-> "Amazon", patterns |-> <<
        <<"a","m","a","z","o","n",".","i","n">>,
        <<"a","m","a","z","o","n",".","c","o","m">>,
        <<"a","m","a","z","o","n",".","c","o",".","u","k">>,
        <<"a","m","a","z","o","n",".","d","e">>,
        <<"a","m","a","z","o","n",".","c","a">>,
        <<"a","m","a","z","o","n",".","c","o","m",".","a","u">>,
        <<"a","m","z","n",".","t","o">>,
        <<"a","m","z","n",".","c","o","m">> >>],
    [store |-> "Steam", patterns |-> <<
        <<"s","t","o","r","e",".","s","t","e","a","m","p","o","w","e","r","e","d",".","c","o","m">>,
        <<"s","t","e","a","m","p","o","w","e","r","e","d",".","c","o","m">> >>],
    [store |-> "Epic Games", patterns |-> <<
        <<"e","p","i","c","g","a","m","e","s",".","c","o","m">>,
        <<"s","t","o","r","e",".","e","p","i","c","g","a","m","e","s",".","c","o","m">> >>],
    [store |-> "GOG", patterns |-> <<
        <<"g","o","g",".","c","o","m">> >>],
    [store |-> "Humble Bundle", patterns |-> <<
        <<"h","u","m","b","l","e","b","u","n","d","l","e",".","c","o","m">> >>],
    [store |-> "PlayStation", patterns |-> <<
        <<"s","t","o","r","e",".","p","l","a","y","s","t","a","t","i","o","n",".","c","o","m">>,
        <<"p","l","a","y","s","t","a","t","i","o","n",".","c","o","m">> >>],
    [store |-> "Xbox", patterns |-> <<
        <<"x","b","o","x",".","c","o","m">>,
        <<"m","i","c","r","o","s","o","f","t",".","c","o","m","/","s","t","o","r","e">> >>],
    [store |-> "Nintendo", patterns |-> <<
        <<"n","i","n","t","e","n","d","o",".","c","o","m">> >>],
    [store |-> "Best Buy", patterns |-> <<
        <<"b","e","s","t","b","u","y",".","c","o","m">>,
        <<"b","e","s","t","b","u","y",".","c","a">> >>],
    [store |-> "Walmart", patterns |-> <<
        <<"w","a","l","m","a","r","t",".","c","o","m">>,
        <<"w","a","l","m","a","r","t",".","c","a">> >>],
    [store |-> "Target", patterns |-> <<
        <<"t","a","r","g","e","t",".","c","o","m">> >>],
    [store |-> "Newegg", patterns |-> <<
        <<"n","e","w","e","g","g",".","c","o","m">> >>],
    [store |-> "B&H Photo", patterns |-> <<
        <<"b","h","p","h","o","t","o","v","i","d","e","o",".","c","o","m">> >>],
    [store |-> "eBay", patterns |-> <<
        <<"e","b","a","y",".","c","o","m">>,
        <<"e","b","a","y",".","c","o",".","u","k">> >>],
    [store |-> "AliExpress", patterns |-> <<
        <<"a","l","i","e","x","p","r","e","s","s",".","c","o","m">> >>],
    [store |-> "Flipkart", patterns |-> <<
        <<"f","l","i","p","k","a","r","t",".","c","o","m">>,
        <<"f","k","r","t",".","i","t">> >>],
    [store |-> "Myntra", patterns |-> <<
        <<"m","y","n","t","r","a",".","c","o","m">> >>],
    [store |-> "Ajio", patterns |-> <<
        <<"a","j","i","o",".","c","o","m">> >>],
    [store |-> "Nykaa", patterns |-> <<
        <<"n","y","k","a","a",".","c","o","m">> >>],
    [store |-> "Croma", patterns |-> <<
        <<"c","r","o","m","a",".","c","o","m">> >>],
    [store |-> "Reliance", patterns |-> <<
        <<"r","e","l","i","a","n","c","e","d","i","g","i","t","a","l",".","i","n">>,
        <<"j","i","o","m","a","r","t",".","c","o","m">> >>],
    [store |-> "Tata", patterns |-> <<
        <<"t","a","t","a","c","l","i","q",".","c","o","m">>,
        <<"b","i","g","b","a","s","k","e","t",".","c","o","m">> >>],
    [store |-> "Paytm", patterns |-> <<
        <<"p","a","y","t","m","m","a","l","l",".","c","o","m">> >>],
    [store |-> "Shopclues", patterns |-> <<
        <<"s","h","o","p","c","l","u","e","s",".","c","o","m">> >>],
    [store |-> "Snapdeal", patterns |-> <<
        <<"s","n","a","p","d","e","a","l",".","c","o","m">> >>],
    [store |-> "Meesho", patterns |-> <<
        <<"m","e","e","s","h","o",".","c","o","m">> >>],
    [store |-> "Blinkit", patterns |-> <<
        <<"b","l","i","n","k","i","t",".","c","o","m">> >>],
    [store |-> "Zepto", patterns |-> <<
        <<"z","e","p","t","o",".","c","o">> >>],
    [store |-> "Swiggy", patterns |-> <<
        <<"s","w","i","g","g","y",".","c","o","m">>,
        <<"i","n","s","t","a","m","a","r","t">> >>] >>


(***************************************************************************)
(* Category keywords, in declaration order                                 *)
(***************************************************************************)
CATEGORY_KEYWORDS == <<
    [category |-> "electronics", keywords |-> <<
        <<"l","a","p","t","o","p">>, <<"p","h","o","n","e">>,
        <<"m","o","b","i","l","e">>, <<"t","a","b","l","e","t">>,
        <<"h","e","a","d","p","h","o","n","e">>,
        <<"e","a","r","p","h","o","n","e">>, <<"e","a","r","b","u","d">>,
        <<"s","p","e","a","k","e","r">>, <<"t","v">>,
        <<"t","e","l","e","v","i","s","i","o","n">>,
        <<"m","o","n","i","t","o","r">>, <<"c","a","m","e","r","a">>,
        <<"s","m","a","r","t","w","a","t","c","h">>,
        <<"w","a","t","c","h">>, <<"c","h","a","r","g","e","r">>,
        <<"p","o","w","e","r","b","a","n","k">>, <<"s","s","d">>,
        <<"h","d","d">>, <<"r","a","m">>,
        <<"p","r","o","c","e","s","s","o","r">>, <<"g","p","u">>,
        <<"k","e","y","b","o","a","r","d">>, <<"m","o","u","s","e">>,
        <<"r","o","u","t","e","r">>, <<"w","i","f","i">>,
        <<"b","l","u","e","t","o","o","t","h">>, <<"u","s","b">>,
        <<"h","d","m","i">>, <<"a","d","a","p","t","e","r">> >>],
    [category |-> "fashion", keywords |-> <<
        <<"c","l","o","t","h","i","n","g">>,
        <<"a","p","p","a","r","e","l">>, <<"f","a","s","h","i","o","n">>,
        <<"s","h","i","r","t">>, <<"t","s","h","i","r","t">>,
        <<"t","-","s","h","i","r","t">>, <<"j","e","a","n","s">>,
        <<"t","r","o","u","s","e","r">>,
        <<"t","r","o","u","s","e","r","s">>, <<"p","a","n","t">>,
        <<"p","a","n","t","s">>, <<"d","r","e","s","s">>,
        <<"d","r","e","s","s","e","s">>, <<"k","u","r","t","a">>,
        <<"s","a","r","e","e">>, <<"l","e","h","e","n","g","a">>,
        <<"j","a","c","k","e","t">>, <<"h","o","o","d","i","e">>,
        <<"s","w","e","a","t","e","r">>, <<"s","h","o","e">>,
        <<"s","h","o","e","s">>, <<"s","n","e","a","k","e","r">>,
        <<"s","n","e","a","k","e","r","s">>, <<"s","a","n","d","a","l">>,
        <<"s","l","i","p","p","e","r">>, <<"b","a","g">>,
        <<"h","a","n","d","b","a","g">>, <<"w","a","l","l","e","t">>,
        <<"b","e","l","t">>, <<"s","u","n","g","l","a","s","s">>,
        <<"s","u","n","g","l","a","s","s","e","s">>,
        <<"w","o","m","e","n">>, <<"m","e","n">>, <<"k","i","d","s">>,
        <<"f","l","a","t"," ","o","f","f">>,
        <<"%"," ","o","f","f"," ","o","n">> >>],
    [category |-> "gaming", keywords |-> <<
        <<"g","a","m","e">>, <<"g","a","m","i","n","g">>, <<"p","s","5">>,
        <<"p","l","a","y","s","t","a","t","i","o","n">>,
        <<"x","b","o","x">>, <<"n","i","n","t","e","n","d","o">>,
        <<"s","w","i","t","c","h">>,
        <<"c","o","n","t","r","o","l","l","e","r">>,
        <<"j","o","y","s","t","i","c","k">>,
        <<"g","a","m","i","n","g"," ","m","o","u","s","e">>,
        <<"g","a","m","i","n","g"," ","k","e","y","b","o","a","r","d">>,
        <<"g","a","m","i","n","g"," ","h","e","a","d","s","e","t">>,
        <<"s","t","e","a","m">>,
        <<"e","p","i","c"," ","g","a","m","e","s">>, <<"g","p","u">>,
        <<"g","r","a","p","h","i","c","s"," ","c","a","r","d">>,
        <<"r","t","x">>, <<"g","t","x">> >>],
    [category |-> "home-kitchen", keywords |-> <<
        <<"k","i","t","c","h","e","n">>,
        <<"c","o","o","k","w","a","r","e">>,
        <<"u","t","e","n","s","i","l">>, <<"m","i","x","e","r">>,
        <<"g","r","i","n","d","e","r">>, <<"b","l","e","n","d","e","r">>,
        <<"m","i","c","r","o","w","a","v","e">>, <<"o","v","e","n">>,
        <<"r","e","f","r","i","g","e","r","a","t","o","r">>,
        <<"f","r","i","d","g","e">>,
        <<"w","a","s","h","i","n","g"," ","m","a","c","h","i","n","e">>,
        <<"a","c">>,
        <<"a","i","r"," ","c","o","n","d","i","t","i","o","n","e","r">>,
        <<"f","a","n">>, <<"c","o","o","l","e","r">>,
        <<"h","e","a","t","e","r">>, <<"v","a","c","u","u","m">>,
        <<"i","r","o","n">>, <<"m","a","t","t","r","e","s","s">>,
        <<"p","i","l","l","o","w">>, <<"b","e","d","s","h","e","e","t">>,
        <<"c","u","r","t","a","i","n">>,
        <<"f","u","r","n","i","t","u","r","e">>, <<"s","o","f","a">>,
        <<"c","h","a","i","r">>, <<"t","a","b","l","e">>,
        <<"l","a","m","p">>, <<"l","i","g","h","t">> >>],
    [category |-> "beauty", keywords |-> <<
        <<"b","e","a","u","t","y">>, <<"s","k","i","n","c","a","r","e">>,
        <<"m","a","k","e","u","p">>, <<"c","o","s","m","e","t","i","c">>,
        <<"l","i","p","s","t","i","c","k">>,
        <<"f","o","u","n","d","a","t","i","o","n">>,
        <<"m","a","s","c","a","r","a">>, <<"p","e","r","f","u","m","e">>,
        <<"f","r","a","g","r","a","n","c","e">>,
        <<"s","h","a","m","p","o","o">>,
        <<"c","o","n","d","i","t","i","o","n","e","r">>,
        <<"h","a","i","r">>,
        <<"m","o","i","s","t","u","r","i","z","e","r">>,
        <<"s","e","r","u","m">>, <<"s","u","n","s","c","r","e","e","n">>,
        <<"f","a","c","e"," ","w","a","s","h">>,
        <<"l","o","t","i","o","n">>, <<"c","r","e","a","m">> >>],
    [category |-> "food-groceries", keywords |-> <<
        <<"f","o","o","d">>, <<"g","r","o","c","e","r","y">>,
        <<"s","n","a","c","k">>, <<"c","h","o","c","o","l","a","t","e">>,
        <<"b","i","s","c","u","i","t">>, <<"c","h","i","p","s">>,
        <<"d","r","i","n","k">>, <<"b","e","v","e","r","a","g","e">>,
        <<"c","o","f","f","e","e">>, <<"t","e","a">>, <<"r","i","c","e">>,
        <<"d","a","l">>, <<"o","i","l">>, <<"m","a","s","a","l","a">>,
        <<"s","p","i","c","e">>, <<"f","r","u","i","t">>,
        <<"v","e","g","e","t","a","b","l","e">>, <<"m","e","a","t">>,
        <<"c","h","i","c","k","e","n">>, <<"f","i","s","h">>,
        <<"d","a","i","r","y">>, <<"m","i","l","k">>, <<"c","u","r","d">> >>],
    [category |-> "mobile-accessories", keywords |-> <<
        <<"m","o","b","i","l","e"," ","c","o","v","e","r">>,
        <<"p","h","o","n","e"," ","c","a","s","e">>,
        <<"s","c","r","e","e","n"," ","p","r","o","t","e","c","t","o","r">>,
        <<"t","e","m","p","e","r","e","d"," ","g","l","a","s","s">>,
        <<"m","o","b","i","l","e"," ","s","t","a","n","d">>,
        <<"p","h","o","n","e"," ","h","o","l","d","e","r">>,
        <<"c","a","r"," ","m","o","u","n","t">>,
        <<"w","i","r","e","l","e","s","s"," ","c","h","a","r","g","e","r">>,
        <<"f","a","s","t"," ","c","h","a","r","g","e","r">>,
        <<"d","a","t","a"," ","c","a","b","l","e">>,
        <<"u","s","b"," ","c","a","b","l","e">>,
        <<"t","y","p","e","-","c">>,
        <<"l","i","g","h","t","n","i","n","g">>,
        <<"a","i","r","p","o","d","s">>, <<"b","u","d","s">> >>],
    [category |-> "books-stationery", keywords |-> <<
        <<"b","o","o","k">>, <<"n","o","v","e","l">>,
        <<"t","e","x","t","b","o","o","k">>,
        <<"n","o","t","e","b","o","o","k">>, <<"d","i","a","r","y">>,
        <<"p","e","n">>, <<"p","e","n","c","i","l">>,
        <<"m","a","r","k","e","r">>,
        <<"h","i","g","h","l","i","g","h","t","e","r">>,
        <<"e","r","a","s","e","r">>,
        <<"s","h","a","r","p","e","n","e","r">>, <<"r","u","l","e","r">>,
        <<"c","a","l","c","u","l","a","t","o","r">>,
        <<"b","a","c","k","p","a","c","k">>,
        <<"s","c","h","o","o","l"," ","b","a","g">>,
        <<"s","t","a","t","i","o","n","e","r","y">>,
        <<"a","r","t"," ","s","u","p","p","l","y">> >>],
    [category |-> "travel", keywords |-> <<
        <<"f","l","i","g","h","t">>, <<"h","o","t","e","l">>,
        <<"b","o","o","k","i","n","g">>, <<"t","r","a","v","e","l">>,
        <<"t","r","i","p">>, <<"v","a","c","a","t","i","o","n">>,
        <<"h","o","l","i","d","a","y">>, <<"l","u","g","g","a","g","e">>,
        <<"s","u","i","t","c","a","s","e">>,
        <<"t","r","o","l","l","e","y">>,
        <<"p","a","s","s","p","o","r","t">>, <<"v","i","s","a">>,
        <<"t","i","c","k","e","t">>, <<"t","r","a","i","n">>,
        <<"b","u","s">>, <<"c","a","b">>, <<"u","b","e","r">>,
        <<"o","l","a">>, <<"m","a","k","e","m","y","t","r","i","p">>,
        <<"g","o","i","b","i","b","o">>,
        <<"c","l","e","a","r","t","r","i","p">> >>] >>

\* the model's null of a string-valued field
NoStore == "null"

\* patterns.some((pattern) => pattern.test(url)); every pattern is written in
\* lower case and has the /i flag, so the test is made on the URL in lower case
MatchesStore(lower, k) ==
    \E n \in 1..Len(STORE_PATTERNS[k].patterns) :
        includes(lower, STORE_PATTERNS[k].patterns[n])

HitsIn(lower) == {k \in 1..Len(STORE_PATTERNS) : MatchesStore(lower, k)}

StoreHits(url) == HitsIn(toLowerCase(url))

\* the first store of the registry among hits, or null
StoreOf(hits) == IF hits = {} THEN NoStore ELSE STORE_PATTERNS[Least(hits)].store

\* Detect store from URL
detectStore(url) == StoreOf(StoreHits(url))

(***************************************************************************)
(* detectCategory                                                          *)
(***************************************************************************)
\* Longer keywords get more weight (more specific)
LongKeyword == 5
Weight(keyword) == IF Len(keyword) > LongKeyword THEN 2 ELSE 1

RECURSIVE KeywordScore(_, _, _)
\* the score of the keywords from the n-th on, in lowerText
KeywordScore(lowerText, keywords, n) ==
    IF n > Len(keywords) THEN 0
    ELSE (IF includes(lowerText, keywords[n]) THEN Weight(keywords[n]) ELSE 0)
         + KeywordScore(lowerText, keywords, n + 1)

\* scores[category] of the k-th category
Score(text, k) == KeywordScore(toLowerCase(text), CATEGORY_KEYWORDS[k].keywords, 1)

\* a later category takes over on a tie as well
BetterOrEqual(score, bestScore) == score >= bestScore

\* a later category takes over when its score is higher
Better(score, bestScore) == score > bestScore

RECURSIVE BestCategory(_, _, _)
\* one turn of the loop, with the score of the k-th entry
BestFrom(text, k, best, score) ==
    IF Better(score, best[2])
    THEN BestCategory(text, k + 1, <<CATEGORY_KEYWORDS[k].category, score>>)
    ELSE BestCategory(text, k + 1, best)

\* the loop over Object.entries(scores) from the k-th entry on:
\* best is <<bestCategory, bestScore>>
BestCategory(text, k, best) ==
    IF k > Len(CATEGORY_KEYWORDS) THEN best
    ELSE BestFrom(text, k, best, Score(text, k))

\* Only return category if there's at least one match
CategoryOf(best) == IF best[2] > 0 THEN best[1] ELSE "other"

\* Detect category from title and description using keyword scoring
detectCategory(text) == CategoryOf(BestCategory(text, 1, <<"other", 0>>))

(***************************************************************************)
(* isProductUrl and extractProductUrl                                      *)
(***************************************************************************)
\* the patterns of SKIP_URL_PATTERNS that match anywhere in the URL
SKIP_URL_PATTERNS == <<
    <<"r","e","d","d","i","t",".","c","o","m","/","m","e","d","i","a">>,
    <<"i",".","r","e","d","d",".","i","t">>,
    <<"p","r","e","v","i","e","w",".","r","e","d","d",".","i","t">>,
    <<"v",".","r","e","d","d",".","i","t">>,
    <<"r","e","d","d","i","t",".","c","o","m","/","g","a","l","l","e","r","y">>,
    <<"i","m","g","u","r",".","c","o","m">> >>
\* the patterns of SKIP_URL_PATTERNS that match at the end of the URL
SKIP_URL_ENDINGS == <<
    <<".","j","p","g">>, <<".","j","p","e","g">>, <<".","p","n","g">>,
    <<".","g","i","f">>, <<".","w","e","b","p">> >>

RedditCom == <<"r","e","d","d","i","t",".","c","o","m">>

\* SKIP_URL_PATTERNS.some((pattern) => pattern.test(url))
\* every pattern is written in lower case and has the /i flag, so the test
\* is made on the URL in lower case
SkipLower(lower) ==
    \/ \E n \in 1..Len(SKIP_URL_PATTERNS) : includes(lower, SKIP_URL_PATTERNS[n])
    \/ \E n \in 1..Len(SKIP_URL_ENDINGS) :
          HasAt(lower, Len(lower) - Len(SKIP_URL_ENDINGS[n]) + 1,
                SKIP_URL_ENDINGS[n], FALSE)

SkipUrl(url) == SkipLower(toLowerCase(url))

\* Check if URL is a store/product URL (not an image or Reddit link)
isProductUrl(url) == ~SkipUrl(url) /\ ~includes(url, RedditCom)

Http  == <<"h","t","t","p">>

\* https?:\/\/ at i: the position after it, or 0
HttpEnd(s, i) ==
    IF ~HasAt(s, i, Http, FALSE) THEN 0
    ELSE IF HasAt(s, i + 4, <<"s",":","/","/">>, FALSE) THEN i + 8
    ELSE IF HasAt(s, i + 4, <<":","/","/">>, FALSE) THEN i + 7
    ELSE 0

RECURSIVE UrlRunEnd(_, _, _)
\* the position after the longest run, from i, of characters that are neither
\* spaces nor in stop
UrlRunEnd(s, i, stop) ==
    IF i <= Len(s) /\ ~IsSpace(s[i]) /\ s[i] \notin stop
    THEN UrlRunEnd(s, i + 1, stop)
    ELSE i

\* the ) that closes the URL which starts after h and runs to e - 1, or 0
ParenClose(s, h, e) == IF e > h /\ e <= Len(s) /\ s[e] = ")" THEN e ELSE 0

\* [^\s\)]+\) after https?:// which ends before h
ParenFrom(s, h) == IF h = 0 THEN 0 ELSE ParenClose(s, h, UrlRunEnd(s, h, {")"}))

\* \((https?:\/\/[^\s\)]+)\) with its ( at i: the position of its ), or 0
ParenUrlEnd(s, i) ==
    IF i >= 1 /\ i <= Len(s) /\ s[i] = "(" THEN ParenFrom(s, HttpEnd(s, i + 1)) ELSE 0

\* \[.*?\]\((https?:\/\/[^\s\)]+)\) with its [ at i: the positions of a ]
\* that closes it
MarkdownClosers(s, i) ==
    IF s[i] # "[" THEN {}
    ELSE {j \in (i + 1)..Len(s) :
             s[j] = "]" /\ DotSpan(s, i + 1, j) /\ ParenUrlEnd(s, j + 1) # 0}

\* .*? is lazy: the first ] that closes it
FirstCloser(s, closers) ==
    IF closers = {} THEN 0 ELSE ParenUrlEnd(s, Least(closers) + 1)

\* the position of the last character of the match that starts at i, or 0
MarkdownEnd(s, i) == FirstCloser(s, MarkdownClosers(s, i))

\* the URL between the ( at i and its )
ParenUrlAt(link, i) == Slice(link, i + 1, ParenUrlEnd(link, i))

\* link.match(/\((https?:\/\/[^\s\)]+)\)/)[1]: the first parenthesised URL
FirstParenUrl(link) ==
    ParenUrlAt(link, Least({k \in 1..Len(link) : ParenUrlEnd(link, k) # 0}))

RECURSIVE MarkdownUrls(_, _)
\* the URL of the markdown link that starts at i and ends at e, then the
\* URLs of the links after it
MarkdownFrom(s, i, e) ==
    <<FirstParenUrl(Slice(s, i, e + 1))>> \o MarkdownUrls(s, e + 1)

\* the URLs of the markdown links from the first of the places where one starts
MarkdownNext(s, places) ==
    IF places = {} THEN <<>>
    ELSE MarkdownFrom(s, Least(places), MarkdownEnd(s, Least(places)))

\* s.match(/\[.*?\]\((https?:\/\/[^\s\)]+)\)/g) from position i on, each
\* link reduced to its URL
MarkdownUrls(s, i) ==
    MarkdownNext(s, {j \in i..Len(s) : MarkdownEnd(s, j) # 0})

\* https?:\/\/[^\s stop]+ matches at i; behind: the (?<!\() before it
PlainAt(s, i, stop, behind) ==
    /\ HttpEnd(s, i) # 0
    /\ UrlRunEnd(s, HttpEnd(s, i), stop) > HttpEnd(s, i)
    /\ ~(behind /\ i > 1 /\ s[i - 1] = "(")

RECURSIVE PlainUrls(_, _, _, _)
\* the URL from i to e - 1, then the URLs after it
PlainRun(s, i, e, stop, behind) ==
    <<Slice(s, i, e)>> \o PlainUrls(s, e, stop, behind)

\* the URLs from the first of the places where one starts
PlainNext(s, stop, behind, places) ==
    IF places = {} THEN <<>>
    ELSE PlainRun(s, Least(places),
                  UrlRunEnd(s, HttpEnd(s, Least(places)), stop), stop, behind)

\* s.match(/https?:\/\/[^\s stop]+/g) from position i on
PlainUrls(s, i, stop, behind) ==
    PlainNext(s, stop, behind, {j \in i..Len(s) : PlainAt(s, j, stop, behind)})

\* markdown links, then plain URLs, of a body or a comment
TextUrls(s) == MarkdownUrls(s, 1) \o PlainUrls(s, 1, {")", "]", "<", ">"}, TRUE)

RECURSIVE CommentUrls(_)
CommentUrls(cs) ==
    IF cs = <<>> THEN <<>> ELSE TextUrls(Head(cs)) \o CommentUrls(Tail(cs))

\* the candidates with the link of a link post put first
LinkFirstUrls(p, cs) ==
    (IF ~p.is_self /\ p.url # <<>> THEN <<p.url>> ELSE <<>>)
    \o TextUrls(p.selftext)
    \o PlainUrls(p.title, 1, {")", "]"}, FALSE)
    \o CommentUrls(cs)

\* allUrls: the candidates in the order they are collected
allUrls(p, cs) ==
    TextUrls(p.selftext)
    \o (IF ~p.is_self /\ p.url # <<>> THEN <<p.url>> ELSE <<>>)
    \o PlainUrls(p.title, 1, {")", "]"}, FALSE)
    \o CommentUrls(cs)

\* url.replace(/[\)\]]+$/, "")
CleanTrailing(url) ==
    IF \A k \in 1..Len(url) : url[k] \in {")", "]"} THEN <<>>
    ELSE SubSeq(url, 1, CHOOSE k \in 1..Len(url) :
                           /\ url[k] \notin {")", "]"}
                           /\ \A m \in (k + 1)..Len(url) : url[m] \in {")", "]"})

RedditOrigin == <<"h","t","t","p","s",":","/","/","r","e","d","d","i","t",".","c","o","m">>

\* First pass: the candidates that are product URLs of a known store
StoreCandidates(urls) ==
    {k \in 1..Len(urls) : isProductUrl(urls[k]) /\ StoreHits(urls[k]) # {}}
\* Second pass: the candidates that are product URLs
ProductCandidates(urls) == {k \in 1..Len(urls) : isProductUrl(urls[k])}

\* the first product URL in source order, whatever its store
FirstProduct(p, urls, stores, products) ==
    IF products # {} THEN CleanTrailing(urls[Least(products)])
    ELSE RedditOrigin \o p.permalink

\* no fallback: nothing when no candidate is left
FirstOrNothing(p, urls, stores, products) ==
    IF stores # {} THEN CleanTrailing(urls[Least(stores)])
    ELSE IF products # {} THEN CleanTrailing(urls[Least(products)])
    ELSE <<>>

\* the first candidate of the first pass, else of the second, else the post
FirstCandidate(p, urls, stores, products) ==
    IF stores # {} THEN CleanTrailing(urls[Least(stores)])
    ELSE IF products # {} THEN CleanTrailing(urls[Least(products)])
    ELSE RedditOrigin \o p.permalink

ProductUrlAmong(p, urls) ==
    FirstCandidate(p, urls, StoreCandidates(urls), ProductCandidates(urls))

\* Extract product URL from post and optionally from comments
extractProductUrl(p, cs) == ProductUrlAmong(p, allUrls(p, cs))

(***************************************************************************)
(* extractImageUrl                                                         *)
(***************************************************************************)
\* the model's null of a string that is a sequence of characters
NoString == <<"null">>

\* !s of a string | null
Falsy(s) == s = NoString \/ s = <<>>

RECURSIVE Unescape(_, _)
\* .replace(/&amp;/g, "&") from position i on
Unescape(s, i) ==
    IF i > Len(s) THEN <<>>
    ELSE IF HasAt(s, i, <<"&", "a", "m", "p", ";">>, FALSE)
         THEN <<"&">> \o Unescape(s, i + 5)
    ELSE <<s[i]>> \o Unescape(s, i + 1)

\* preview: the resolutions of post.preview.images[0] and the URL of its
\* source, or NoPreview when the post has no preview image
NoPreview == [resolutions |-> <<>>, source |-> NoString]

MinWidth == 300
MaxWidth == 800

\* every resolution taken as fitting, whatever its width
AnyWidth(resolutions) == DOMAIN resolutions

\* image.resolutions.find((r) => r.width >= 300 && r.width <= 800)
Fitting(resolutions) ==
    {k \in 1..Len(resolutions) :
        resolutions[k].width >= MinWidth /\ resolutions[k].width <= MaxWidth}

\* the URL of the resolution found, else of the source
PreviewUrl(pv, fitting) ==
    IF fitting # {} THEN Unescape(pv.resolutions[Least(fitting)].url, 1)
    ELSE Unescape(pv.source, 1)

\* Try preview images first
PreviewImage(pv) ==
    IF pv = NoPreview THEN NoString ELSE PreviewUrl(pv, Fitting(pv.resolutions))

\* Try thumbnail
ThumbnailOr(img, thumbnail) ==
    IF Falsy(img) /\ HasAt(thumbnail, 1, Http, FALSE) THEN thumbnail ELSE img

\* imageUrl before the Open Graph image is looked for
PostImage(p) == ThumbnailOr(PreviewImage(p.preview), p.thumbnail)

ExternalPreview ==
    <<"e","x","t","e","r","n","a","l","-","p","r","e","v","i","e","w">>
RedditMedia ==
    <<"r","e","d","d","i","t","m","e","d","i","a">>
\* the fetch decided on the image alone, whatever the URL
NeedsImage(img, url) ==
    Falsy(img) \/ includes(img, ExternalPreview) \/ includes(img, RedditMedia)

\* Check if image is generic or missing, and try to fetch from product URL
NeedsFetch(img, url) ==
    /\ Falsy(img) \/ includes(img, ExternalPreview) \/ includes(img, RedditMedia)
    /\ isProductUrl(url)

(***************************************************************************)
(* fetchOgImage.  What the network gives is a response: fetch rejects (a   *)
(* network error, or the abort of the 3 s timer), or it resolves with a    *)
(* status and a body; response.text() rejects, or it resolves with a page  *)
(* whose meta tags hold the content of og:image and twitter:image.         *)
(***************************************************************************)
Response(kind, ok, og, twitter) ==
    [kind |-> kind, ok |-> ok, og |-> og, twitter |-> twitter]

\* no fetch made
NoResponse == Response("none", FALSE, NoString, NoString)

\* a promise that rejects, or a call that throws
Rejected == <<"rejected">>

\* imageUrl || null, after og:image and then twitter:image
MetaImage(og, twitter) ==
    IF ~Falsy(og) THEN og ELSE IF ~Falsy(twitter) THEN twitter ELSE NoString

\* the try block: what it returns, or Rejected when an await in it rejects
TryFetch(r) ==
    IF r.kind \in {"error", "abort", "text"} THEN Rejected
    ELSE IF ~r.ok THEN NoString
    ELSE MetaImage(r.og, r.twitter)

\* no catch clause: the rejection leaves the function
Uncaught(outcome) == outcome

\* catch (error) { return null }
CatchNull(outcome) == IF outcome = Rejected THEN NoString ELSE outcome

\* Fetch Open Graph image from URL
fetchOgImage(r) == CatchNull(TryFetch(r))

\* a promise not settled yet
Pending == [state |-> "pending", list |-> <<>>]

(***************************************************************************)
(* parseRedditPost                                                         *)
(***************************************************************************)
\* Skip non-deal posts
skipPatterns == <<
    <<"[","m","e","t","a","]">>,
    <<"[","q","u","e","s","t","i","o","n","]">>,
    <<"[","d","i","s","c","u","s","s","i","o","n","]">>,
    <<"l","o","o","k","i","n","g"," ","f","o","r">>,
    <<"s","u","g","g","e","s","t"," ","m","e">>,
    <<"h","e","l","p"," ","n","e","e","d","e","d">>,
    <<"w","h","i","c","h"," ","o","n","e">> >>
\* the markers tested as the source writes them, without the i flag
SkipPostCased(t) == \E n \in 1..Len(skipPatterns) : includes(t, skipPatterns[n])

\* skipPatterns.some((pattern) => pattern.test(post.title))
SkipPost(t) == \E n \in 1..Len(skipPatterns) : includesI(t, skipPatterns[n])

\* `${post.title} ${post.selftext}`
FullText(p) == p.title \o <<" ">> \o p.selftext

\* a post is dropped only for its title
InfoNotAsked(deal, discount, url) == FALSE

\* !dealPrice && !discountPercent && productUrl.includes("reddit.com")
NoDealInfo(deal, discount, url) ==
    ~Truthy(deal) /\ ~Truthy(discount) /\ includes(url, RedditCom)

(***************************************************************************)
(* titleClassifier.ts: classifyDeal                                        *)
(***************************************************************************)
BATCH_SIZE == 20

VALID_CATEGORIES == {
    <<"e","l","e","c","t","r","o","n","i","c","s">>,
    <<"f","a","s","h","i","o","n">>,
    <<"h","o","m","e">>,
    <<"b","e","a","u","t","y">>,
    <<"s","p","o","r","t","s">>,
    <<"b","o","o","k","s">>,
    <<"g","a","m","i","n","g">>,
    <<"g","r","o","c","e","r","y">>,
    <<"b","a","b","y">>,
    <<"a","u","t","o","m","o","t","i","v","e">>,
    <<"h","e","a","l","t","h">>,
    <<"t","o","y","s">>,
    <<"o","f","f","i","c","e">>,
    <<"t","r","a","v","e","l">>,
    <<"o","t","h","e","r">> }

\* what the model answered, once JSON.parse has read it; throws: the call of
\* the API, or JSON.parse, threw
Reply(throws, clean, brand, suggested) ==
    [throws |-> throws, cleanTitle |-> clean, brand |-> brand,
     suggestedCategory |-> suggested]

\* classifyDeal returned null
NoClassification ==
    [ok |-> FALSE, cleanTitle |-> NoString, brand |-> NoString,
     suggestedCategory |-> NoString]

\* if (parsed.cleanTitle.length > 100) substring(0, 97) + "..."
Shorten(t) == IF Len(t) > 100 THEN SubSeq(t, 1, 97) \o <<".", ".", ".">> ELSE t

\* Validate category
ValidCategory(c) ==
    IF ~Falsy(c) /\ toLowerCase(c) \in VALID_CATEGORIES THEN toLowerCase(c)
    ELSE NoString

\* parsed.brand?.trim() || null
Brand(b) == IF Falsy(b) \/ trim(b) = <<>> THEN NoString ELSE trim(b)

\* the TitleClassification of a reply, or null when the try block threw
classifyDeal(reply) ==
    IF reply.throws \/ Falsy(reply.cleanTitle) THEN NoClassification
    ELSE [ok |-> TRUE,
          cleanTitle |-> trim(Shorten(reply.cleanTitle)),
          brand |-> Brand(reply.brand),
          suggestedCategory |-> ValidCategory(reply.suggestedCategory)]

(***************************************************************************)
(* The database.  A Deal row has its id for index, a greater id being a    *)
(* later createdAt; titleProcessedAt is TRUE when the column is set; slug  *)
(* is the slug of the row's category.                                      *)
(***************************************************************************)
Row(text, active, processed, slug) ==
    [title |-> text, isActive |-> active, titleProcessedAt |-> processed,
     slug |-> slug, cleanTitle |-> NoString, brand |-> NoString]

\* where: { titleProcessedAt: null, isActive: true }
Unprocessed(d) ==
    {id \in DOMAIN d.Deal : ~d.Deal[id].titleProcessedAt /\ d.Deal[id].isActive}

\* take: n, orderBy: { createdAt: "desc" }: the n newest of the ids
Newest(ids, n) == {i \in ids : Cardinality({j \in ids : j > i}) < n}

\* the k-th of them, newest first
Nth(top, k) == CHOOSE i \in top : Cardinality({j \in top : j > i}) = k - 1

\* select: id, title, category.slug
Snapshot(d, id) == [id |-> id, title |-> d.Deal[id].title, slug |-> d.Deal[id].slug]

Select(d, top) == [k \in 1..Cardinality(top) |-> Snapshot(d, Nth(top, k))]

Only(S) == CHOOSE x \in S : TRUE

\* prisma.deal.findMany({ where, select, take: limit, orderBy })
findMany(d, limit) ==
    Only({Select(d, top) : top \in {Newest(u, limit) : u \in {Unprocessed(d)}}})

\* Skip if title is already short and clean-looking
LooksClean(t) ==
    length(t) <= 60 /\ ~includes(t, <<"[">>) /\ ~includes(t, <<"(">>)

\* data: { cleanTitle: deal.title, titleProcessedAt: new Date() }
SkippedRow(row, deal) ==
    [row EXCEPT !.cleanTitle = deal.title, !.titleProcessedAt = TRUE]

\* updateData.categoryId: the category to write, or none
NewCategory(c, deal, categoryMap) ==
    IF /\ ~Falsy(c.suggestedCategory)
       /\ c.suggestedCategory # deal.slug
       /\ c.suggestedCategory \in categoryMap
    THEN c.suggestedCategory
    ELSE NoString

\* data: updateData
ClassifiedRow(row, c, category) ==
    [row EXCEPT !.cleanTitle = c.cleanTitle, !.brand = c.brand,
                !.titleProcessedAt = TRUE,
                !.slug = IF category = NoString THEN @ ELSE category]

\* the row of a deal whose classification failed, left as it is
Untouched(row) == row

\* data: { titleProcessedAt: new Date() }
MarkProcessed(row) == [row EXCEPT !.titleProcessedAt = TRUE]

\* ProcessingResult
Zero == [processed |-> 0, failed |-> 0, skipped |-> 0, categoriesUpdated |-> 0]

Handled(r) == r.processed + r.failed + r.skipped

\* totalResult.x += batchResult.x
Sum(t, r) ==
    [processed |-> t.processed + r.processed, failed |-> t.failed + r.failed,
     skipped |-> t.skipped + r.skipped,
     categoriesUpdated |-> t.categoriesUpdated + r.categoriesUpdated]

\* the run stops after its first batch
NoMore(r) == FALSE

\* hasMore = processed + failed + skipped === BATCH_SIZE
HasMore(r) == Handled(r) = BATCH_SIZE

\* the next deal taken at once
AtOnce(j) == [j EXCEPT !.pc = "loop", !.k = @ + 1]

\* Delay between API calls to respect rate limits: the await of the 4 s timer
Continue(j) == [j EXCEPT !.pc = "delay"]

\* a run of the job: processAllUnclassifiedDeals (all), or one call of
\* processUnclassifiedDeals(limit); log: the deals handled so far and how,
\* sizes: what each batch handled, todo: the deals that were active and not
\* processed when the run began
NewJob(all, limit) ==
    [pc |-> "findDeals", all |-> all, limit |-> limit, deals |-> <<>>, k |-> 0,
     categoryMap |-> {}, classification |-> NoClassification, result |-> Zero,
     total |-> Zero, log |-> <<>>, sizes |-> <<>>, todo |-> {}]

\* no row in the database, no run of the job, no call of classifyDeal
NoTable == [Deal |-> <<>>, Category |-> {}]
Idle == [NewJob(FALSE, 0) EXCEPT !.pc = "idle"]
\* inFlight: the calls of classifyDeal not returned; delayed: no call has
\* returned since the last 4 s delay; asked: the deals classifyDeal was
\* called for
NoCalls == [inFlight |-> 0, delayed |-> TRUE, asked |-> <<>>]

(***************************************************************************)
(* State machine.  Each function of the parser is an operation: a call     *)
(* with its argument in post, comments or fullText leaves its result in    *)
(* the variable named as the source names it.  parseRedditPost runs from   *)
(* its call to the await of the Open Graph image, and from there to its    *)
(* return.                                                                 *)
(***************************************************************************)
Permalink ==
    <<"/","r","/","d","e","a","l","s","/","c","o","m","m","e","n","t","s","/",
      "a","b","c","/">>
NoPost == [id |-> "abc", title |-> <<>>, selftext |-> <<>>, is_self |-> TRUE,
           url |-> <<>>, permalink |-> Permalink, thumbnail |-> <<>>,
           preview |-> NoPreview]

\* the state at the start of an operation
Start(at, p, cs, text) ==
    /\ pc = at
    /\ post = p
    /\ comments = cs
    /\ fullText = text
    /\ productUrl = NoString
    /\ dealPrice = Null
    /\ originalPrice = Null
    /\ currency = "none"
    /\ discountPercent = Null
    /\ store = NoStore
    /\ categorySlug = "none"
    /\ imageUrl = NoString
    /\ title = NoString
    /\ result = "none"
    /\ response = NoResponse
    /\ posts = <<>>
    /\ tasks = <<>>
    /\ deals = Pending
    /\ timer = "none"
    /\ db = NoTable
    /\ job = Idle
    /\ api = NoCalls

\* the texts made of at most n pieces of tokens
TextsOf(tokens, n) ==
    {Flatten(ts) : ts \in UNION {[1..k -> tokens] : k \in 0..n}}

\* the lists of at most n of cs
ListsOf(cs, n) == UNION {[1..k -> cs] : k \in 0..n}

(***************************************************************************)
(* extractPriceWithCurrency, extractPrices, extractDiscount on a text      *)
(***************************************************************************)
CallExtractPriceWithCurrency ==
    /\ pc = "extractPriceWithCurrency"
    /\ \E r \in {extractPriceWithCurrency(fullText)} :
           dealPrice' = r.price /\ currency' = r.currency
    /\ pc' = "returned"
    /\ UNCHANGED <<response, posts, tasks, deals>>
    /\ UNCHANGED <<timer, classifier>>
    /\ UNCHANGED <<post, comments, fullText, productUrl, originalPrice,
                   discountPercent, store, categorySlug, imageUrl, title, result>>

CallExtractPrices ==
    /\ pc = "extractPrices"
    /\ \E prices \in {extractPrices(fullText)} :
           /\ dealPrice' = prices.dealPrice
           /\ originalPrice' = prices.originalPrice
           /\ currency' = prices.currency
    /\ pc' = "extractDiscount"
    /\ UNCHANGED <<response, posts, tasks, deals>>
    /\ UNCHANGED <<timer, classifier>>
    /\ UNCHANGED <<post, comments, fullText, productUrl, discountPercent,
                   store, categorySlug, imageUrl, title, result>>

CallExtractDiscount ==
    /\ pc = "extractDiscount"
    /\ discountPercent' = extractDiscount(fullText, dealPrice, originalPrice)
    /\ pc' = "returned"
    /\ UNCHANGED <<response, posts, tasks, deals>>
    /\ UNCHANGED <<timer, classifier>>
    /\ UNCHANGED <<post, comments, fullText, productUrl, dealPrice, originalPrice,
                   currency, store, categorySlug, imageUrl, title, result>>

\* pieces of the texts with amounts
PriceTokens == {
    <<"$","8","0">>,
    <<"$","1","0","0">>,
    <<"$","0">>,
    <<"$",",">>,
    <<"$","1",",","0","0","0",".","5","0">>,
    <<" ","w","a","s"," ">>,
    <<" ","f","r","o","m"," ">>,
    <<"0">>,
    <<"R","s","."," ","5","0">>,
    <<" ","m","r","p"," ","r","s"," ","7","5">>,
    <<"o","f","f","e","r","s"," ","9">> }
MaxPriceTokens == 3
InitPrices ==
    \E text \in TextsOf(PriceTokens, MaxPriceTokens) :
    \E at \in {"extractPriceWithCurrency", "extractPrices"} :
        Start(at, NoPost, <<>>, text)
NextPrices == CallExtractPriceWithCurrency \/ CallExtractPrices
SpecPrices == InitPrices /\ [][NextPrices]_vars

\* pieces of the texts with amounts in several currencies
CurrencyTokens ==
    {<<"C","$","5","0">>,
     <<"A","$","2","0">>,
     <<"C","A","D"," ","3","0"," ">>,
     <<"$","0"," ">>,
     <<"R","s"," ","7"," ">>,
     <<"U+201A","U+00C7","U+00A8","5"," ">>,
     <<" ","a","n","d"," ">>}
MaxCurrencyTokens == 2
InitCurrency ==
    \E text \in TextsOf(CurrencyTokens, MaxCurrencyTokens) :
    \E at \in {"extractPriceWithCurrency", "extractPrices"} :
        Start(at, NoPost, <<>>, text)
SpecCurrency == InitCurrency /\ [][NextPrices]_vars

\* pieces of the texts with discounts
DiscountTokens == {
    <<"5">>,
    <<"1","0">>,
    <<"1","5">>,
    <<"%"," ","o","f","f">>,
    <<"0","%"," ","o","f","f">>,
    <<" ","%"," ","D","i","s","c","o","u","n","t">>,
    <<"$","8","0"," ","w","a","s"," ","$","1","0","0"," ">>,
    <<"$","9","9","9"," ","w","a","s"," ","$","1","0","0","0"," ">>,
    <<"$","2","0","0"," ","f","r","o","m"," ","$","1","7","1"," ">> }
MaxDiscountTokens == 3
InitDiscount ==
    \E text \in TextsOf(DiscountTokens, MaxDiscountTokens) :
        Start("extractPrices", NoPost, <<>>, text)
NextDiscount == CallExtractPrices \/ CallExtractDiscount
SpecDiscount == InitDiscount /\ [][NextDiscount]_vars

(***************************************************************************)
(* detectCategory on a text                                                *)
(***************************************************************************)
CallDetectCategory ==
    /\ pc = "detectCategory"
    /\ categorySlug' = detectCategory(fullText)
    /\ pc' = "returned"
    /\ UNCHANGED <<response, posts, tasks, deals>>
    /\ UNCHANGED <<timer, classifier>>
    /\ UNCHANGED <<post, comments, fullText, productUrl, dealPrice, originalPrice,
                   currency, discountPercent, store, imageUrl, title, result>>

\* pieces of the texts with keywords
CategoryTokens == {
    <<"G","P","U"," ">>,
    <<"s","t","e","a","m"," ">>,
    <<"L","a","p","t","o","p"," ">>,
    <<"s","h","i","r","t"," ">>,
    <<"b","o","o","k"," ">>,
    <<"t","e","a"," ">>,
    <<"x"," ">> }
MaxCategoryTokens == 3
InitCategory ==
    \E text \in TextsOf(CategoryTokens, MaxCategoryTokens) :
        Start("detectCategory", NoPost, <<>>, text)
NextCategory == CallDetectCategory
SpecCategory == InitCategory /\ [][NextCategory]_vars

(***************************************************************************)
(* cleanTitle on a title                                                   *)
(***************************************************************************)
CallCleanTitle ==
    /\ pc = "cleanTitle"
    /\ title' = cleanTitle(post.title)
    /\ pc' = "returned"
    /\ UNCHANGED <<response, posts, tasks, deals>>
    /\ UNCHANGED <<timer, classifier>>
    /\ UNCHANGED <<post, comments, fullText, productUrl, dealPrice, originalPrice,
                   currency, discountPercent, store, categorySlug, imageUrl,
                   result>>

\* pieces of the titles
TitleTokens == {
    <<"U+1F525">>,
    <<"H","U","G","E"," ","D","E","A","L",":"," ">>,
    <<"S","o","n","y">>,
    <<" "," ">>,
    <<"a","b">>,
    <<"!">>,
    <<"l","i","n","k"," ","i","n"," ","c","o","m","m","e","n","t","s">> }
MaxTitleTokens == 3
InitTitle ==
    \E t \in TextsOf(TitleTokens, MaxTitleTokens) :
        Start("cleanTitle", [NoPost EXCEPT !.title = t], <<>>, <<>>)
NextTitle == CallCleanTitle
SpecTitle == InitTitle /\ [][NextTitle]_vars

(***************************************************************************)
(* extractProductUrl, then detectStore, on a post and its comments         *)
(***************************************************************************)
CallExtractProductUrl ==
    /\ pc = "extractProductUrl"
    /\ productUrl' = extractProductUrl(post, comments)
    /\ pc' = "detectStore"
    /\ UNCHANGED <<response, posts, tasks, deals>>
    /\ UNCHANGED <<timer, classifier>>
    /\ UNCHANGED <<post, comments, fullText, dealPrice, originalPrice, currency,
                   discountPercent, store, categorySlug, imageUrl, title, result>>

CallDetectStore ==
    /\ pc = "detectStore"
    /\ store' = detectStore(productUrl)
    /\ pc' = "returned"
    /\ UNCHANGED <<response, posts, tasks, deals>>
    /\ UNCHANGED <<timer, classifier>>
    /\ UNCHANGED <<post, comments, fullText, productUrl, dealPrice, originalPrice,
                   currency, discountPercent, categorySlug, imageUrl, title,
                   result>>

\* pieces of the bodies with URLs
UrlTokens == {
    <<"c","h","e","c","k"," ","t","h","i","s"," ","o","u","t"," ","h","t","t",
      "p",":","/","/","e","x","a","m","p","l","e",".","c","o","m","/",
      "x">>,
    <<" ","t","h","e","n"," ">>,
    <<"h","t","t","p",":","/","/","a","m","a","z","o","n",".","i","n","/","d",
      "p","/","1","2","3">>,
    <<"[","p","i","c","]","(","h","t","t","p","s",":","/","/","i",".","r","e",
      "d","d",".","i","t","/","a",".","p","n","g",")">>,
    <<"(","h","t","t","p",":","/","/","b","e","s","t","b","u","y",".","c","o",
      "m","/","b",")",")">>,
    <<"h","t","t","p","s",":","/","/","r","e","d","d","i","t",".","c","o","m",
      "/","r","/","x"," ">> }
MaxUrlTokens == 3
UrlTitle ==
    <<"d","e","a","l"," ","a","t"," ","h","t","t","p",":","/","/","w","a","l",
      "m","a","r","t",".","c","o","m","/","a","]">>
AmazonUrl ==
    <<"h","t","t","p",":","/","/","a","m","a","z","o","n",".","c","o","m","/",
      "d","p","/","x","y","z">>
ImageLink ==
    <<"h","t","t","p","s",":","/","/","i",".","r","e","d","d",".","i","t","/",
      "a",".","p","n","g">>
SelfUrl ==
    <<"h","t","t","p","s",":","/","/","w","w","w",".","r","e","d","d","i","t",
      ".","c","o","m","/","r","/","d","e","a","l","s","/","c","o","m","m",
      "e","n","t","s","/","a","b","c","/">>
UrlComment ==
    <<"b","u","y"," ","a","t"," ","h","t","t","p","s",":","/","/","f","l","i",
      "p","k","a","r","t",".","c","o","m","/","p","/","1">>
\* a self post, or a link post with its link
Links == {[is_self |-> TRUE, url |-> SelfUrl],
          [is_self |-> FALSE, url |-> AmazonUrl],
          [is_self |-> FALSE, url |-> ImageLink]}
InitUrl ==
    \E body \in TextsOf(UrlTokens, MaxUrlTokens) :
    \E t \in {<<>>, UrlTitle} :
    \E link \in Links :
    \E cs \in {<<>>, <<UrlComment>>} :
        Start("extractProductUrl",
              [NoPost EXCEPT !.title = t, !.selftext = body,
                             !.is_self = link.is_self, !.url = link.url],
              cs, <<>>)
NextUrl == CallExtractProductUrl \/ CallDetectStore
SpecUrl == InitUrl /\ [][NextUrl]_vars

(***************************************************************************)
(* parseRedditPost on a post and its comments                              *)
(***************************************************************************)
\* a title with a non-deal marker: nothing else is computed
SkipNonDeal ==
    /\ pc = "parseRedditPost"
    /\ SkipPost(post.title)
    /\ fullText' = FullText(post)
    /\ result' = "null"
    /\ pc' = "returned"
    /\ UNCHANGED <<response, posts, tasks, deals>>
    /\ UNCHANGED <<timer, classifier>>
    /\ UNCHANGED <<post, comments, productUrl, dealPrice, originalPrice, currency,
                   discountPercent, store, categorySlug, imageUrl, title>>

\* from the call to the await in extractImageUrl
ParsePost ==
    /\ pc = "parseRedditPost"
    /\ ~SkipPost(post.title)
    /\ fullText' = FullText(post)
    /\ productUrl' = extractProductUrl(post, comments)
    /\ \E prices \in {extractPrices(fullText')} :
           /\ dealPrice' = prices.dealPrice
           /\ originalPrice' = prices.originalPrice
           /\ currency' = prices.currency
    /\ discountPercent' = extractDiscount(fullText', dealPrice', originalPrice')
    /\ store' = detectStore(productUrl')
    /\ categorySlug' = detectCategory(fullText')
    /\ imageUrl' = PostImage(post)
    /\ pc' = IF NeedsFetch(imageUrl', productUrl') THEN "fetchOgImage" ELSE "resume"
    /\ UNCHANGED <<response, posts, tasks, deals>>
    /\ UNCHANGED <<timer, classifier>>
    /\ UNCHANGED <<post, comments, title, result>>

\* what the page of the product gives: an image, or nothing (no og:image, a
\* response that is not ok, a timeout, an error)
OgImages == {
    <<"h","t","t","p","s",":","/","/","m",".","m","e","d","i","a","-","a","m",
      "a","z","o","n",".","c","o","m","/","o","g",".","j","p","g">> }
TwitterImage ==
    <<"h","t","t","p","s",":","/","/","s","h","o","p",".","c","o","m","/","t",
      "w",".","p","n","g">>
\* what the network can give for the page of the product
Responses ==
    {Response("error", FALSE, NoString, NoString),
     Response("abort", FALSE, NoString, NoString),
     Response("text", TRUE, NoString, NoString),
     Response("page", FALSE, NoString, NoString),
     Response("page", TRUE, NoString, NoString),
     Response("page", TRUE, <<>>, TwitterImage)}
        \cup {Response("page", TRUE, og, NoString) : og \in OgImages}

\* the image of the page always taken, even when there is none
Replaced(img, ogImage) == ogImage

\* imageUrl after the await of fetchOgImage: if (ogImage) imageUrl = ogImage
FetchedImage(img, ogImage) == IF Falsy(ogImage) THEN img ELSE ogImage

\* const ogImage = await fetchOgImage(productUrl): a rejection would leave
\* extractImageUrl and parseRedditPost, which have no try block
FetchOgImage ==
    /\ pc = "fetchOgImage"
    /\ \E r \in Responses : \E ogImage \in {fetchOgImage(r)} :
          /\ response' = r
          /\ IF ogImage = Rejected
             THEN imageUrl' = imageUrl /\ result' = "rejected" /\ pc' = "returned"
             ELSE /\ imageUrl' = FetchedImage(imageUrl, ogImage)
                  /\ result' = result
                  /\ pc' = "resume"
    /\ UNCHANGED <<posts, tasks, deals>>
    /\ UNCHANGED <<timer, classifier>>
    /\ UNCHANGED <<post, comments, fullText, productUrl, dealPrice, originalPrice,
                   currency, discountPercent, store, categorySlug, title>>

\* Skip if no useful price or URL info
SkipNoInfo ==
    /\ pc = "resume"
    /\ NoDealInfo(dealPrice, discountPercent, productUrl)
    /\ result' = "null"
    /\ pc' = "returned"
    /\ UNCHANGED <<response, posts, tasks, deals>>
    /\ UNCHANGED <<timer, classifier>>
    /\ UNCHANGED <<post, comments, fullText, productUrl, dealPrice, originalPrice,
                   currency, discountPercent, store, categorySlug, imageUrl, title>>

ReturnDeal ==
    /\ pc = "resume"
    /\ ~NoDealInfo(dealPrice, discountPercent, productUrl)
    /\ title' = cleanTitle(post.title)
    /\ result' = "deal"
    /\ pc' = "returned"
    /\ UNCHANGED <<response, posts, tasks, deals>>
    /\ UNCHANGED <<timer, classifier>>
    /\ UNCHANGED <<post, comments, fullText, productUrl, dealPrice, originalPrice,
                   currency, discountPercent, store, categorySlug, imageUrl>>

EndToEndTitle ==
    <<"U+1F525"," ","H","U","G","E"," ","D","E","A","L",":"," ","S","o","n",
      "y"," ","H","e","a","d","p","h","o","n","e","s"," ","$","1","9","9",
      " ","(","w","a","s"," ","$","2","9","9",")"," ","l","i","n","k"," ",
      "i","n"," ","c","o","m","m","e","n","t","s">>
DiscussionTitle ==
    <<"[","D","i","s","c","u","s","s","i","o","n","]"," ","w","h","i","c","h",
      " ","l","a","p","t","o","p"," ","s","h","o","u","l","d"," ","I"," ",
      "b","u","y">>
LookingTitle ==
    <<"L","o","o","k","i","n","g"," ","f","o","r"," ","a"," ","T","V"," ","$",
      "8","0"," ","w","a","s"," ","$","1","0","0">>
PercentTitle ==
    <<"N","i","c","e"," ","l","a","m","p"," ","2","0","%"," ","o","f","f">>
PlainTitle ==
    <<"h","e","l","l","o">>
BlankTitle ==
    <<" "," ">>
FreeTitle ==
    <<"F","r","e","e"," ","g","a","m","e"," ","$","0"," ","(","w","a","s"," ","$","2","0",")">>
Titles ==
    {EndToEndTitle, DiscussionTitle, LookingTitle, PercentTitle, PlainTitle,
     BlankTitle, FreeTitle}
ExampleBody ==
    <<"c","h","e","c","k"," ","t","h","i","s"," ","o","u","t"," ","h","t","t",
      "p",":","/","/","e","x","a","m","p","l","e",".","c","o","m","/","x",
      " ","t","h","e","n"," ","h","t","t","p",":","/","/","a","m","a","z",
      "o","n",".","i","n","/","d","p","/","1","2","3">>
MetaBody ==
    <<"[","m","e","t","a","]"," ","n","o","w"," ","$","5">>
Bodies == {<<>>, ExampleBody, MetaBody}
StoreComment ==
    <<"b","u","y"," ","a","t"," ","h","t","t","p","s",":","/","/","f","l","i",
      "p","k","a","r","t",".","c","o","m","/","p","/","1">>
PlainComment ==
    <<"n","i","c","e">>
Comments == {StoreComment, PlainComment}
MaxComments == 1
SelfThumbnail ==
    <<"s","e","l","f">>
MediaThumbnail ==
    <<"h","t","t","p",":","/","/","b",".","t","h","u","m","b","s",".","r","e",
      "d","d","i","t","m","e","d","i","a",".","c","o","m","/","t",".","j",
      "p","g">>
FittingUrl ==
    <<"h","t","t","p","s",":","/","/","p","r","e","v","i","e","w",".","r","e",
      "d","d",".","i","t","/","a",".","j","p","g","?","w","i","d","t","h",
      "=","6","4","0","&","a","m","p",";","s","=","1">>
SmallUrl ==
    <<"h","t","t","p","s",":","/","/","p","r","e","v","i","e","w",".","r","e",
      "d","d",".","i","t","/","a",".","j","p","g","?","w","i","d","t","h",
      "=","1","0","8","&","a","m","p",";","s","=","2">>
SourceUrl ==
    <<"h","t","t","p","s",":","/","/","p","r","e","v","i","e","w",".","r","e",
      "d","d",".","i","t","/","a",".","j","p","g","?","s","=","3">>
\* thumbnail and preview of a post
Images == {[thumbnail |-> SelfThumbnail, preview |-> NoPreview],
           [thumbnail |-> MediaThumbnail, preview |-> NoPreview],
           [thumbnail |-> SelfThumbnail,
            preview |-> [resolutions |-> <<[width |-> 108, url |-> SmallUrl],
                                           [width |-> 640, url |-> FittingUrl]>>,
                         source |-> SourceUrl]]}
Init ==
    \E t \in Titles :
    \E body \in Bodies :
    \E link \in Links :
    \E cs \in ListsOf(Comments, MaxComments) :
    \E image \in Images :
        Start("parseRedditPost",
              [NoPost EXCEPT !.title = t, !.selftext = body,
                             !.is_self = link.is_self, !.url = link.url,
                             !.thumbnail = image.thumbnail,
                             !.preview = image.preview],
              cs, <<>>)
Next == SkipNonDeal \/ ParsePost \/ FetchOgImage \/ SkipNoInfo \/ ReturnDeal
Spec == Init /\ [][Next]_vars

\* pieces of the bodies with a bare URL, a markdown link, a merchant's URL
SourceTokens ==
    {<<"h","t","t","p",":","/","/","s","h","o","p",".","c","o","m","/","p"," ">>,
     <<"[","a","]","(","h","t","t","p",":","/","/","o","t","h","e","r",".","o","r","g","/","q",")"," ">>,
     <<"h","t","t","p",":","/","/","e","b","a","y",".","c","o","m","/","r"," ">>}
MaxSourceTokens == 2
\* a comment with a bare URL before a markdown link, and one with a merchant
MixedComment ==
    <<"h","t","t","p",":","/","/","s","h","o","p",".","c","o","m","/","c"," ","[","b","]","(","h","t","t","p",":","/","/","o","t","h","e","r",".","o","r","g","/","d",")">>
SourceComments == {MixedComment, UrlComment}
MaxSourceComments == 2
InitSources ==
    \E body \in TextsOf(SourceTokens, MaxSourceTokens) :
    \E t \in {<<>>, UrlTitle} :
    \E link \in Links :
    \E cs \in ListsOf(SourceComments, MaxSourceComments) :
        Start("extractProductUrl",
              [NoPost EXCEPT !.title = t, !.selftext = body,
                             !.is_self = link.is_self, !.url = link.url],
              cs, <<>>)
SpecSources == InitSources /\ [][NextUrl]_vars

\* pieces of the bodies with links whose URL ends in a bracket
BracketTokens ==
    {<<"[","p","i","c","]","(","h","t","t","p",":","/","/","s","h","o","p",".","c","o","m","/","a",".","p","n","g","]",")">>,
     <<"[","x","]","(","h","t","t","p",":","/","/","a","m","a","z","o","n",".","i","n","/","c",".","j","p","g","]",")">>,
     <<"s","e","e"," ","h","t","t","p",":","/","/","s","h","o","p",".","c","o","m","/","b"," ">>,
     <<" ">>}
MaxBracketTokens == 3
InitBrackets ==
    \E body \in TextsOf(BracketTokens, MaxBracketTokens) :
    \E link \in Links :
        Start("extractProductUrl",
              [NoPost EXCEPT !.selftext = body, !.is_self = link.is_self,
                             !.url = link.url],
              <<>>, <<>>)
SpecBrackets == InitBrackets /\ [][NextUrl]_vars

(***************************************************************************)
(* detectStore on a URL made of a scheme and a host, a path and a query    *)
(***************************************************************************)
StoreHosts ==
    {<<"h","t","t","p",":","/","/","e","x","a","m","p","l","e",".","c","o","m">>,
     <<"h","t","t","p","s",":","/","/","a","m","a","z","o","n",".","i","n">>,
     <<"h","t","t","p","s",":","/","/","w","w","w",".","f","l","i","p","k","a","r","t",".","c","o","m">>,
     <<"h","t","t","p",":","/","/","A","M","A","Z","O","N",".","C","O","M">>,
     <<"h","t","t","p","s",":","/","/","s","h","o","p",".","e","x","a","m","p","l","e",".","o","r","g">>}
StorePaths ==
    {<<>>,
     <<"/","d","p","/","1">>,
     <<"/","a","m","a","z","o","n",".","c","o","m","/","x">>,
     <<"/","i","n","s","t","a","m","a","r","t">>}
StoreQueries ==
    {<<>>,
     <<"?","r","e","f","=","1">>,
     <<"?","u","=","h","t","t","p",":","/","/","w","a","l","m","a","r","t",".","c","o","m","/","a">>,
     <<"?","q","=","e","b","a","y",".","c","o","m">>}
InitStore ==
    \E host \in StoreHosts : \E path \in StorePaths : \E query \in StoreQueries :
        /\ pc = "detectStore"
        /\ post = NoPost
        /\ comments = <<>>
        /\ fullText = <<>>
        /\ productUrl = host \o path \o query
        /\ dealPrice = Null
        /\ originalPrice = Null
        /\ currency = "none"
        /\ discountPercent = Null
        /\ store = NoStore
        /\ categorySlug = "none"
        /\ imageUrl = NoString
        /\ title = NoString
        /\ result = "none"
        /\ response = NoResponse
        /\ posts = <<>>
        /\ tasks = <<>>
        /\ deals = Pending
        /\ timer = "none"
        /\ db = NoTable
        /\ job = Idle
        /\ api = NoCalls
NextStore == CallDetectStore
SpecStore == InitStore /\ [][NextStore]_vars

(***************************************************************************)
(* extractImageUrl on a post and the URL of its product                    *)
(***************************************************************************)
\* from the call to the await of fetchOgImage, or to the return when no
\* Open Graph image is looked for
SelectImage ==
    /\ pc = "extractImageUrl"
    /\ imageUrl' = PostImage(post)
    /\ pc' = IF NeedsFetch(imageUrl', productUrl) THEN "fetchOgImage" ELSE "resume"
    /\ UNCHANGED <<response, posts, tasks, deals>>
    /\ UNCHANGED <<timer, classifier>>
    /\ UNCHANGED <<post, comments, fullText, productUrl, dealPrice, originalPrice,
                   currency, discountPercent, store, categorySlug, title, result>>

ExternalUrl ==
    <<"h","t","t","p","s",":","/","/","e","x","t","e","r","n","a","l","-","p","r","e","v","i","e","w",".","r","e","d","d",".","i","t","/","a",".","j","p","g","?","w","i","d","t","h","=","8","0","0","&","a","m","p",";","s","=","4">>
EdgeUrl ==
    <<"h","t","t","p","s",":","/","/","p","r","e","v","i","e","w",".","r","e","d","d",".","i","t","/","a",".","j","p","g","?","w","i","d","t","h","=","3","0","0","&","a","m","p",";","s","=","5">>
LargeUrl ==
    <<"h","t","t","p","s",":","/","/","p","r","e","v","i","e","w",".","r","e","d","d",".","i","t","/","a",".","j","p","g","?","w","i","d","t","h","=","8","0","1","&","a","m","p",";","s","=","6">>
\* the resolution variants of a preview image
Resolutions ==
    {[width |-> 108, url |-> SmallUrl], [width |-> 299, url |-> SmallUrl],
     [width |-> 300, url |-> EdgeUrl], [width |-> 640, url |-> FittingUrl],
     [width |-> 800, url |-> ExternalUrl], [width |-> 801, url |-> LargeUrl]}
MaxResolutions == 2
Previews ==
    {NoPreview}
        \cup {[resolutions |-> rs, source |-> SourceUrl] :
                 rs \in ListsOf(Resolutions, MaxResolutions)}
PlainThumbnail ==
    <<"h","t","t","p",":","/","/","i","m","g",".","e","x","a","m","p","l","e",".","c","o","m","/","t",".","j","p","g">>
Thumbnails == {<<>>, SelfThumbnail, MediaThumbnail, PlainThumbnail}
\* what extractProductUrl can have returned: a product, an image, the permalink
ProductUrls == {AmazonUrl, ImageLink, RedditOrigin \o Permalink}
InitImage ==
    \E pv \in Previews : \E th \in Thumbnails : \E url \in ProductUrls :
        /\ pc = "extractImageUrl"
        /\ post = [NoPost EXCEPT !.preview = pv, !.thumbnail = th]
        /\ comments = <<>>
        /\ fullText = <<>>
        /\ productUrl = url
        /\ dealPrice = Null
        /\ originalPrice = Null
        /\ currency = "none"
        /\ discountPercent = Null
        /\ store = NoStore
        /\ categorySlug = "none"
        /\ imageUrl = NoString
        /\ title = NoString
        /\ result = "none"
        /\ response = NoResponse
        /\ posts = <<>>
        /\ tasks = <<>>
        /\ deals = Pending
        /\ timer = "none"
        /\ db = NoTable
        /\ job = Idle
        /\ api = NoCalls
NextImage == SelectImage \/ FetchOgImage
SpecImage == InitImage /\ [][NextImage]_vars

(***************************************************************************)
(* fetchOgImage, await by await.  The call creates the AbortController,    *)
(* arms the 3 s timer and awaits fetch; when fetch resolves the timer is   *)
(* cleared, and the body is awaited with response.text().  The server      *)
(* answers when it likes, or never.                                        *)
(***************************************************************************)
\* await fetch(url, ...) resolves with the headers: clearTimeout(timeoutId),
\* then if (!response.ok) return null, else response.text() is awaited
FetchResolves ==
    /\ pc = "awaitFetch"
    /\ \E ok \in BOOLEAN :
          /\ response' = Response("headers", ok, NoString, NoString)
          /\ IF ok THEN pc' = "awaitText" /\ imageUrl' = imageUrl
                   ELSE pc' = "returned" /\ imageUrl' = fetchOgImage(response')
    /\ timer' = "cleared"
    /\ UNCHANGED <<posts, tasks, deals, classifier>>
    /\ UNCHANGED <<post, comments, fullText, productUrl, dealPrice, originalPrice,
                   currency, discountPercent, store, categorySlug, title, result>>

\* await fetch(url, ...) rejects for the network: the catch returns null, and
\* clearTimeout is not reached
FetchRejects ==
    /\ pc = "awaitFetch"
    /\ response' = Response("error", FALSE, NoString, NoString)
    /\ imageUrl' = fetchOgImage(response')
    /\ pc' = "returned"
    /\ UNCHANGED <<posts, tasks, deals, timer, classifier>>
    /\ UNCHANGED <<post, comments, fullText, productUrl, dealPrice, originalPrice,
                   currency, discountPercent, store, categorySlug, title, result>>

\* the timer fires: controller.abort() rejects the fetch that is awaited
Abort ==
    /\ timer = "armed"
    /\ timer' = "fired"
    /\ IF pc = "awaitFetch"
       THEN /\ response' = Response("abort", FALSE, NoString, NoString)
            /\ imageUrl' = fetchOgImage(response')
            /\ pc' = "returned"
       ELSE UNCHANGED <<response, imageUrl, pc>>
    /\ UNCHANGED <<posts, tasks, deals, classifier>>
    /\ UNCHANGED <<post, comments, fullText, productUrl, dealPrice, originalPrice,
                   currency, discountPercent, store, categorySlug, title, result>>

OgImage2 ==
    <<"h","t","t","p","s",":","/","/","s","h","o","p",".","c","o","m","/","o","g",".","p","n","g">>
TwitterImage2 ==
    <<"h","t","t","p","s",":","/","/","c","d","n",".","s","h","o","p",".","c","o","m","/","t","w",".","j","p","g">>
\* the content of og:image and of twitter:image in a page: no tag, an empty
\* content, a URL
OgContents == {NoString, <<>>, OgImage2} \cup OgImages
TwitterContents == {NoString, <<>>, TwitterImage, TwitterImage2}

\* await response.text() resolves with the page
TextResolves ==
    /\ pc = "awaitText"
    /\ \E og \in OgContents : \E twitter \in TwitterContents :
          response' = Response("page", TRUE, og, twitter)
    /\ imageUrl' = fetchOgImage(response')
    /\ pc' = "returned"
    /\ UNCHANGED <<posts, tasks, deals, timer, classifier>>
    /\ UNCHANGED <<post, comments, fullText, productUrl, dealPrice, originalPrice,
                   currency, discountPercent, store, categorySlug, title, result>>

\* await response.text() rejects: the catch returns null
TextRejects ==
    /\ pc = "awaitText"
    /\ response' = Response("text", TRUE, NoString, NoString)
    /\ imageUrl' = fetchOgImage(response')
    /\ pc' = "returned"
    /\ UNCHANGED <<posts, tasks, deals, timer, classifier>>
    /\ UNCHANGED <<post, comments, fullText, productUrl, dealPrice, originalPrice,
                   currency, discountPercent, store, categorySlug, title, result>>

FlipkartUrl ==
    <<"h","t","t","p","s",":","/","/","f","l","i","p","k","a","r","t",".","c","o","m","/","p","/","1">>
FetchUrls ==
    {AmazonUrl, FlipkartUrl,
     <<"h","t","t","p",":","/","/","e","x","a","m","p","l","e",".","c","o","m","/","x">>,
     <<"h","t","t","p","s",":","/","/","w","w","w",".","b","e","s","t","b","u","y",".","c","o","m","/","b">>,
     <<"h","t","t","p",":","/","/","w","a","l","m","a","r","t",".","c","o","m","/","a">>}
InitFetch ==
    \E url \in FetchUrls :
        /\ pc = "awaitFetch"
        /\ post = NoPost
        /\ comments = <<>>
        /\ fullText = <<>>
        /\ productUrl = url
        /\ dealPrice = Null
        /\ originalPrice = Null
        /\ currency = "none"
        /\ discountPercent = Null
        /\ store = NoStore
        /\ categorySlug = "none"
        /\ imageUrl = NoString
        /\ title = NoString
        /\ result = "none"
        /\ response = NoResponse
        /\ posts = <<>>
        /\ tasks = <<>>
        /\ deals = Pending
        /\ timer = "armed"
        /\ db = NoTable
        /\ job = Idle
        /\ api = NoCalls
NextFetch == FetchResolves \/ FetchRejects \/ Abort \/ TextResolves \/ TextRejects
\* the timer fires when it is armed; the server may never answer
SpecFetch == InitFetch /\ [][NextFetch]_vars /\ WF_vars(Abort)

(***************************************************************************)
(* parseRedditPosts.  Promise.all over posts.map(async (post) => ...): one *)
(* callback for each post, each with its own try block.  A callback awaits *)
(* fetchComments, then parseRedditPost, which awaits the Open Graph image  *)
(* when it needs one.  The callbacks interleave at their awaits.           *)
(***************************************************************************)
\* the variables of a single call of parseRedditPost
single == <<pc, post, comments, fullText, productUrl, dealPrice, originalPrice,
            currency, discountPercent, store, categorySlug, imageUrl, title,
            result, response>>

\* the consts of parseRedditPost before the await
ExtractedWith(text, url, prices) ==
    [productUrl |-> url,
     dealPrice |-> prices.dealPrice,
     originalPrice |-> prices.originalPrice,
     currency |-> prices.currency,
     discountPercent |-> extractDiscount(text, prices.dealPrice, prices.originalPrice),
     store |-> detectStore(url),
     categorySlug |-> detectCategory(text)]
Extracted(p, cs) ==
    ExtractedWith(FullText(p), extractProductUrl(p, cs), extractPrices(FullText(p)))

\* what a callback, or parseRedditPost, comes to: null, a ParsedDeal, or a
\* rejection
NoValue == [kind |-> "none", deal |-> [title |-> NoString]]
NullValue == [kind |-> "null", deal |-> [title |-> NoString]]
Rejection == [kind |-> "rejected", deal |-> [title |-> NoString]]

\* the ParsedDeal of parseRedditPost
ParsedDeal(p, e, img) ==
    [kind |-> "deal",
     deal |-> [title |-> cleanTitle(p.title),
               originalPrice |-> e.originalPrice,
               dealPrice |-> e.dealPrice,
               discountPercent |-> e.discountPercent,
               currency |-> e.currency,
               productUrl |-> e.productUrl,
               imageUrl |-> img,
               store |-> e.store,
               categorySlug |-> e.categorySlug,
               redditPostId |-> p.id]]

\* parseRedditPost from the end of the await to its return
Returned(p, e, img) ==
    IF NoDealInfo(e.dealPrice, e.discountPercent, e.productUrl) THEN NullValue
    ELSE ParsedDeal(p, e, img)

\* post.selftext.match(...) on a post without selftext throws a TypeError
Throws(p) == p.selftext = NoString

\* no try block in the callback: the rejection is the callback's
TaskUncaught(value) == value

\* catch (err) { logger.error(...); return null }
TaskCatch(value) == IF value.kind = "rejected" THEN NullValue ELSE value

\* the callback returns; at: how many callbacks have returned by then
Settle(i, value, caught) ==
    tasks' = [tasks EXCEPT ![i].pc = "settled", ![i].value = value,
                           ![i].caught = caught,
                           ![i].at = 1 + Cardinality({j \in DOMAIN tasks :
                                                        tasks[j].pc = "settled"})]

\* the callback returns what its try block came to
SettleTry(i, value) == Settle(i, TaskCatch(value), value.kind = "rejected")

\* a callback that goes to the parse with no comments, whatever the fetcher
NoCommentFetch(p, fetcher) ==
    [pc |-> "parseRedditPost", fetcher |-> fetcher, asked |-> <<>>,
     comments |-> <<>>, value |-> NoValue, caught |-> FALSE, at |-> 0]

\* a callback as posts.map starts it: it runs to its first await, calling
\* fetchComments(post.id) when there is a fetcher; asked: the ids it has
\* called fetchComments with
NewTask(p, fetcher) ==
    [pc |-> IF fetcher THEN "fetchComments" ELSE "parseRedditPost",
     fetcher |-> fetcher,
     asked |-> IF fetcher THEN <<p.id>> ELSE <<>>,
     comments |-> <<>>, value |-> NoValue, caught |-> FALSE, at |-> 0]

\* the posts of a batch: the end-to-end example, a post with no deal in it,
\* a post without selftext
BatchPosts ==
    {[NoPost EXCEPT !.id = "a1", !.title = EndToEndTitle, !.is_self = FALSE,
                    !.url = AmazonUrl],
     [NoPost EXCEPT !.id = "b2", !.title = PlainTitle, !.url = SelfUrl],
     [NoPost EXCEPT !.id = "c3", !.title = PercentTitle, !.selftext = NoString,
                    !.is_self = FALSE, !.url = AmazonUrl]}

\* what the await of fetchComments comes to: comments, or a rejection
NoComments == [rejects |-> FALSE, comments |-> <<>>]
CommentFetches ==
    {NoComments,
     [rejects |-> FALSE, comments |-> <<StoreComment>>],
     [rejects |-> TRUE, comments |-> <<>>]}

\* fetchComments ? await fetchComments(post.id) : []
FetchComments(i) ==
    /\ tasks[i].pc = "fetchComments"
    /\ \E f \in CommentFetches :
          IF f.rejects THEN SettleTry(i, Rejection)
          ELSE tasks' = [tasks EXCEPT ![i].pc = "parseRedditPost",
                                      ![i].comments = f.comments]
    /\ UNCHANGED <<posts, deals>>
    /\ UNCHANGED <<timer, classifier>>
    /\ UNCHANGED single

\* the ParsedDeal with the image extractImageUrl returned
WithImage(v, img) == IF v.kind = "deal" THEN [v EXCEPT !.deal.imageUrl = img] ELSE v

\* parseRedditPost(post, comments) up to its first await, or to its return:
\* the step it ends with, the image found in the post, and what it returns
\* but for the image
PreparedWith(p, e, img) ==
    [step |-> IF NeedsFetch(img, e.productUrl) THEN "await" ELSE "return",
     image |-> img,
     returned |-> Returned(p, e, NoString)]
Prepared(p, cs) ==
    IF SkipPost(p.title) THEN [step |-> "null"]
    ELSE IF Throws(p) THEN [step |-> "throws"]
    ELSE PreparedWith(p, Extracted(p, cs), PostImage(p))

\* parseRedditPost is a function of the post and the comments up to its
\* await: its value for the posts and the comments of the batches
Prepare ==
    [p \in BatchPosts |->
        [cs \in {f.comments : f \in CommentFetches} |-> Prepared(p, cs)]]

TaskParseTo(i, t) ==
    IF t.step = "null" THEN SettleTry(i, NullValue)
    ELSE IF t.step = "throws" THEN SettleTry(i, Rejection)
    ELSE IF t.step = "await" THEN tasks' = [tasks EXCEPT ![i].pc = "fetchOgImage"]
    ELSE SettleTry(i, WithImage(t.returned, t.image))

TaskParse(i) ==
    /\ tasks[i].pc = "parseRedditPost"
    /\ TaskParseTo(i, Prepare[posts[i]][tasks[i].comments])
    /\ UNCHANGED <<posts, deals>>
    /\ UNCHANGED <<timer, classifier>>
    /\ UNCHANGED single

\* the network outcomes taken for the callbacks
TaskResponses ==
    {r \in Responses : r.kind = "error" \/ (r.ok /\ ~Falsy(r.og))}

\* the await of fetchOgImage in the parseRedditPost of the callback
TaskFetchTo(i, t, ogImage) ==
    IF ogImage = Rejected THEN SettleTry(i, Rejection)
    ELSE SettleTry(i, WithImage(t.returned, FetchedImage(t.image, ogImage)))

TaskFetchOgImage(i) ==
    /\ tasks[i].pc = "fetchOgImage"
    /\ \E r \in TaskResponses :
          TaskFetchTo(i, Prepare[posts[i]][tasks[i].comments], fetchOgImage(r))
    /\ UNCHANGED <<posts, deals>>
    /\ UNCHANGED <<timer, classifier>>
    /\ UNCHANGED single

RECURSIVE LastFirst(_)
\* the deals pushed from the last callback to the first
LastFirst(ts) ==
    IF ts = <<>> THEN <<>>
    ELSE IF Head(ts).value.kind = "deal"
    THEN LastFirst(Tail(ts)) \o <<Head(ts).value.deal>>
    ELSE LastFirst(Tail(ts))

\* for (const deal of results) if (deal) deals.push(deal)
RECURSIVE DealsOf(_)
DealsOf(ts) ==
    IF ts = <<>> THEN <<>>
    ELSE IF Head(ts).value.kind = "deal"
    THEN <<Head(ts).value.deal>> \o DealsOf(Tail(ts))
    ELSE DealsOf(Tail(ts))

\* await Promise.all(...): it rejects with the first callback that rejects,
\* and resolves when every callback has returned
AwaitAll ==
    /\ pc = "parseRedditPosts"
    /\ IF \E i \in DOMAIN tasks : tasks[i].value.kind = "rejected"
       THEN deals' = [state |-> "rejected", list |-> <<>>]
       ELSE /\ \A i \in DOMAIN tasks : tasks[i].pc = "settled"
            /\ deals' = [state |-> "resolved", list |-> DealsOf(tasks)]
    /\ pc' = "returned"
    /\ UNCHANGED <<posts, tasks>>
    /\ UNCHANGED <<timer, classifier>>
    /\ UNCHANGED <<post, comments, fullText, productUrl, dealPrice, originalPrice,
                   currency, discountPercent, store, categorySlug, imageUrl,
                   title, result, response>>

MaxPosts == 2
InitBatch ==
    \E ps \in ListsOf(BatchPosts, MaxPosts) :
    \E fetcher \in BOOLEAN :
        /\ pc = "parseRedditPosts"
        /\ post = NoPost
        /\ comments = <<>>
        /\ fullText = <<>>
        /\ productUrl = NoString
        /\ dealPrice = Null
        /\ originalPrice = Null
        /\ currency = "none"
        /\ discountPercent = Null
        /\ store = NoStore
        /\ categorySlug = "none"
        /\ imageUrl = NoString
        /\ title = NoString
        /\ result = "none"
        /\ response = NoResponse
        /\ posts = ps
        /\ tasks = [i \in DOMAIN ps |-> NewTask(ps[i], fetcher)]
        /\ deals = Pending
        /\ timer = "none"
        /\ db = NoTable
        /\ job = Idle
        /\ api = NoCalls
NextBatch ==
    \/ \E i \in DOMAIN tasks : FetchComments(i)
    \/ \E i \in DOMAIN tasks : TaskParse(i)
    \/ \E i \in DOMAIN tasks : TaskFetchOgImage(i)
    \/ AwaitAll
\* every await of a callback settles: the tasks of the event loop all run
SpecBatch == InitBatch /\ [][NextBatch]_vars /\ WF_vars(NextBatch)

(***************************************************************************)
(* processUnclassifiedDeals and processAllUnclassifiedDeals                *)
(***************************************************************************)
\* the variables of the parser
parser == <<single, posts, tasks, deals, timer>>

\* const deals = await prisma.deal.findMany(...); if (deals.length === 0)
\* return result
FindDeals ==
    /\ job.pc = "findDeals"
    /\ \E found \in {findMany(db, job.limit)} :
          job' = [job EXCEPT !.deals = found, !.k = 1, !.result = Zero,
                             !.pc = IF found = <<>> THEN "batchReturned"
                                    ELSE "findCategories"]
    /\ UNCHANGED <<db, api>>
    /\ UNCHANGED parser

\* Pre-fetch all categories for quick lookup
FindCategories ==
    /\ job.pc = "findCategories"
    /\ job' = [job EXCEPT !.categoryMap = db.Category, !.pc = "loop"]
    /\ UNCHANGED <<db, api>>
    /\ UNCHANGED parser

\* a short and clean-looking title: the row is updated, skipped++, continue
Skip ==
    /\ job.pc = "loop"
    /\ job.k <= Len(job.deals)
    /\ LooksClean(job.deals[job.k].title)
    /\ \E deal \in {job.deals[job.k]} :
          /\ db' = [db EXCEPT !.Deal[deal.id] = SkippedRow(@, deal)]
          /\ job' = [job EXCEPT !.result.skipped = @ + 1, !.k = @ + 1,
                                !.log = Append(@, [id |-> deal.id, how |-> "skipped"])]
    /\ UNCHANGED api
    /\ UNCHANGED parser

\* classifyDeal(deal.title, deal.productUrl) is called
CallClassifyDeal ==
    /\ job.pc = "loop"
    /\ job.k <= Len(job.deals)
    /\ ~LooksClean(job.deals[job.k].title)
    /\ job' = [job EXCEPT !.pc = "classifyDeal"]
    /\ api' = [api EXCEPT !.inFlight = @ + 1,
                          !.asked = Append(@, job.deals[job.k].id)]
    /\ UNCHANGED db
    /\ UNCHANGED parser

CleanedTitle ==
    <<"G","a","l","a","x","y"," ","S","2","4">>
BrandName ==
    <<" ","S","a","m","s","u","n","g"," ">>
Home ==
    <<"h","o","m","e">>
Electronics ==
    <<"e","l","e","c","t","r","o","n","i","c","s">>
\* what the model can answer: an error, no cleanTitle, no category, a
\* category of the table in capitals, the category of the deal, a valid
\* category that the table lacks, a category that is not valid
Replies ==
    {Reply(TRUE, NoString, NoString, NoString),
     Reply(FALSE, <<>>, BrandName, Home),
     Reply(FALSE, CleanedTitle, NoString, NoString),
     Reply(FALSE, CleanedTitle, BrandName, <<"E","l","e","c","t","r","o","n","i","c","s">>),
     Reply(FALSE, CleanedTitle, BrandName, Home),
     Reply(FALSE, CleanedTitle, <<" ">>, <<"t","r","a","v","e","l">>),
     Reply(FALSE, CleanedTitle, NoString, <<"g","a","r","d","e","n">>)}

\* classifyDeal returns
ClassifyDealReturns ==
    /\ job.pc = "classifyDeal"
    /\ \E reply \in Replies :
          job' = [job EXCEPT !.classification = classifyDeal(reply), !.pc = "update"]
    /\ api' = [api EXCEPT !.inFlight = @ - 1, !.delayed = FALSE]
    /\ UNCHANGED db
    /\ UNCHANGED parser

\* if (classification): the row is updated with updateData, processed++
UpdateClassified ==
    /\ job.pc = "update"
    /\ job.classification.ok
    /\ \E deal \in {job.deals[job.k]} :
       \E category \in {NewCategory(job.classification, deal, job.categoryMap)} :
          /\ db' = [db EXCEPT !.Deal[deal.id] =
                                 ClassifiedRow(@, job.classification, category)]
          /\ job' = Continue(
                [job EXCEPT !.result.processed = @ + 1,
                            !.result.categoriesUpdated =
                                IF category = NoString THEN @ ELSE @ + 1,
                            !.log = Append(@, [id |-> deal.id, how |-> "processed"])])
    /\ UNCHANGED api
    /\ UNCHANGED parser

\* else: the row is marked as processed, failed++
UpdateFailed ==
    /\ job.pc = "update"
    /\ ~job.classification.ok
    /\ \E deal \in {job.deals[job.k]} :
          /\ db' = [db EXCEPT !.Deal[deal.id] = MarkProcessed(@)]
          /\ job' = Continue(
                [job EXCEPT !.result.failed = @ + 1,
                            !.log = Append(@, [id |-> deal.id, how |-> "failed"])])
    /\ UNCHANGED api
    /\ UNCHANGED parser

\* await new Promise((resolve) => setTimeout(resolve, 4000)) resolves
Delay ==
    /\ job.pc = "delay"
    /\ job' = [job EXCEPT !.pc = "loop", !.k = @ + 1]
    /\ api' = [api EXCEPT !.delayed = TRUE]
    /\ UNCHANGED db
    /\ UNCHANGED parser

\* the loop is over: return result
ReturnBatch ==
    /\ job.pc = "loop"
    /\ job.k > Len(job.deals)
    /\ job' = [job EXCEPT !.pc = "batchReturned"]
    /\ UNCHANGED <<db, api>>
    /\ UNCHANGED parser

\* processAllUnclassifiedDeals after the await of a batch: the totals, hasMore
Accumulate ==
    /\ job.pc = "batchReturned"
    /\ job.all
    /\ job' = [job EXCEPT !.total = Sum(@, job.result),
                          !.sizes = Append(@, Handled(job.result)),
                          !.pc = IF HasMore(job.result) THEN "pause" ELSE "returned"]
    /\ UNCHANGED <<db, api>>
    /\ UNCHANGED parser

\* if (hasMore) await new Promise((resolve) => setTimeout(resolve, 1000))
Pause ==
    /\ job.pc = "pause"
    /\ job' = [job EXCEPT !.pc = "findDeals"]
    /\ UNCHANGED <<db, api>>
    /\ UNCHANGED parser

\* a call of prisma rejects: the batch rejects, and the run with it
DatabaseError ==
    /\ \/ job.pc \in {"findDeals", "findCategories", "update"}
       \/ /\ job.pc = "loop"
          /\ job.k <= Len(job.deals)
          /\ LooksClean(job.deals[job.k].title)
    /\ job' = [job EXCEPT !.pc = "rejected"]
    /\ UNCHANGED <<db, api>>
    /\ UNCHANGED parser

ShortTitle ==
    <<"D","e","s","k"," ","l","a","m","p">>
BracketTitle ==
    <<"[","D","e","a","l","]"," ","D","e","s","k"," ","l","a","m","p">>
ParenTitle ==
    <<"D","e","s","k"," ","l","a","m","p"," ","(","n","e","w",")">>
SixtyTitle ==
    <<"S","a","m","s","u","n","g"," ","G","a","l","a","x","y"," ","S","2",
      "4"," ","U","l","t","r","a"," ","5","G"," ","A","I"," ","S","m","a",
      "r","t","p","h","o","n","e"," ","2","5","6","G","B"," ","T","i","t",
      "a","n","i","u","m"," ","G","r","a">>
SixtyOneTitle ==
    <<"S","a","m","s","u","n","g"," ","G","a","l","a","x","y"," ","S","2",
      "4"," ","U","l","t","r","a"," ","5","G"," ","A","I"," ","S","m","a",
      "r","t","p","h","o","n","e"," ","2","5","6","G","B"," ","T","i","t",
      "a","n","i","u","m"," ","G","r","a","y">>
\* a row with a short clean title, active and not processed
PlainRow == Row(ShortTitle, TRUE, FALSE, Home)
\* the rows that differ from it: in the title, inactive, processed
Rows ==
    {PlainRow,
     Row(BracketTitle, TRUE, FALSE, Home),
     Row(ParenTitle, TRUE, FALSE, Electronics),
     Row(SixtyTitle, TRUE, FALSE, Home),
     Row(SixtyOneTitle, TRUE, FALSE, Home),
     Row(BracketTitle, FALSE, FALSE, Home),
     Row(BracketTitle, TRUE, TRUE, Home)}
\* the rows of Category
Categories == {Home, Electronics}
\* how many of the oldest rows are taken among Rows, the others being plain
MaxMixed == 2
MaxDeals == 22
\* the numbers of rows of Deal: few, one batch, more than one batch
Sizes == 0..3 \cup {BATCH_SIZE, MaxDeals}
Tables ==
    UNION {{[Deal |-> [id \in 1..n |-> IF id <= Len(mixed) THEN mixed[id] ELSE PlainRow],
             Category |-> Categories] :
               mixed \in [1..(IF n < MaxMixed THEN n ELSE MaxMixed) -> Rows]} :
           n \in Sizes}
\* the whole job, which runs batches of BATCH_SIZE, and one batch with a limit
\* of its own
Runs == {NewJob(TRUE, BATCH_SIZE), NewJob(FALSE, 2)}
InitJob ==
    \E d \in Tables : \E run \in Runs :
        /\ pc = "idle"
        /\ post = NoPost
        /\ comments = <<>>
        /\ fullText = <<>>
        /\ productUrl = NoString
        /\ dealPrice = Null
        /\ originalPrice = Null
        /\ currency = "none"
        /\ discountPercent = Null
        /\ store = NoStore
        /\ categorySlug = "none"
        /\ imageUrl = NoString
        /\ title = NoString
        /\ result = "none"
        /\ response = NoResponse
        /\ posts = <<>>
        /\ tasks = <<>>
        /\ deals = Pending
        /\ timer = "none"
        /\ db = d
        /\ job = [run EXCEPT !.todo = Unprocessed(d)]
        /\ api = NoCalls
NextJob ==
    \/ FindDeals \/ FindCategories \/ Skip \/ CallClassifyDeal
    \/ ClassifyDealReturns \/ UpdateClassified \/ UpdateFailed \/ Delay
    \/ ReturnBatch \/ Accumulate \/ Pause \/ DatabaseError
\* the job goes on: the model answers, the timers fire, the database answers
\* or fails
SpecJob == InitJob /\ [][NextJob]_vars /\ WF_vars(NextJob)

(***************************************************************************)
(* Properties                                                              *)
(***************************************************************************)
\* the post of the end-to-end example, parsed with no comments
EndToEndPost ==
    /\ post.title = EndToEndTitle
    /\ post.selftext = <<>>
    /\ ~post.is_self
    /\ post.url = AmazonUrl
    /\ comments = <<>>

\* the fields of the ParsedDeal of the example, but for its title
EndToEndFields ==
    /\ result = "deal"
    /\ dealPrice = Units(199)
    /\ originalPrice = Units(299)
    /\ discountPercent = 33
    /\ currency = "USD"
    /\ store = "Amazon"
    /\ categorySlug = "electronics"
    /\ productUrl = AmazonUrl

KeptTitle ==
    <<"H","U","G","E"," ","D","E","A","L",":"," ","S","o","n","y"," ","H","e",
      "a","d","p","h","o","n","e","s"," ","$","1","9","9"," ","(","w","a",
      "s"," ","$","2","9","9",")">>
StatedTitle ==
    <<"S","o","n","y"," ","H","e","a","d","p","h","o","n","e","s">>
\* C1, with the title the parser returns: parseRedditPost on the post of the
\* end-to-end example, with no comments, returns a ParsedDeal with title
\* "HUGE DEAL: Sony Headphones $199 (was $299)", dealPrice 199, originalPrice
\* 299, discountPercent 33, currency "USD", store "Amazon", categorySlug
\* "electronics" and productUrl "http://amazon.com/dp/xyz".
C1_EndToEnd ==
    (EndToEndPost /\ pc = "returned") => (EndToEndFields /\ title = KeptTitle)

\* C1 as stated: the ParsedDeal of the end-to-end example has the title
\* "Sony Headphones", with the other fields as above.
C1_AsStated ==
    (EndToEndPost /\ pc = "returned") => (EndToEndFields /\ title = StatedTitle)

\* C1: parseRedditPost has returned a deal for the post of the example
C1_Returned == EndToEndPost /\ pc = "returned" /\ result = "deal"

\* some pair pattern matches the text with two numbers
PairFound(text) == PairHits(PairMatches(text)) # {}

\* the two numbers captured by the first such pattern, in the order of the text
CapturedBy(m) == <<parseFloat(m[1], <<>>), parseFloat(m[2], <<>>)>>
CapturedAmong(matches) == CapturedBy(matches[Least(PairHits(matches))])
Captured(text) == CapturedAmong(PairMatches(text))

\* C2: when extractPrices matches a pair pattern, the returned originalPrice is
\* at least the returned dealPrice: dealPrice is the smaller and originalPrice
\* the larger of the two captured numbers, whichever comes first in the text;
\* a result with both prices present has originalPrice >= dealPrice.
C2_OriginalAtLeastDeal ==
    pc = "extractDiscount" =>
        /\ originalPrice # Null => (dealPrice # Null /\ originalPrice >= dealPrice)
        /\ PairFound(fullText) =>
              \A captured \in {Captured(fullText)} :
                  /\ originalPrice >= dealPrice
                  /\ \A n \in {1, 2} : captured[n] \in {dealPrice, originalPrice}
                  /\ \A n \in {1, 2} : dealPrice <= captured[n]
                  /\ \A n \in {1, 2} : originalPrice >= captured[n]

\* C2: extractPrices has returned a pair whose larger number came first
C2_LargerFirst ==
    /\ pc = "extractDiscount"
    /\ PairFound(fullText)
    /\ \E captured \in {Captured(fullText)} :
           /\ captured[1] > captured[2]
           /\ dealPrice = captured[2]
           /\ originalPrice = captured[1]

\* r is an integer nearest to 100 (o - d) / o
Nearest(r, d, o) ==
    /\ 200 * (o - d) - 2 * o * r <= o
    /\ 2 * o * r - 200 * (o - d) <= o

\* extractDiscount has returned, and took no explicit phrase
Derives == pc = "returned" /\ ExplicitDiscount(fullText) = Null

\* C3: when extractDiscount derives the discount from the prices, a value is
\* returned only if 0 < discount <= 100, and it is
\* round((originalPrice - dealPrice) / originalPrice * 100); a pair whose
\* rounded discount is 0 gives null, any other pair of positive prices with
\* originalPrice > dealPrice gives a value.
C3_DerivedDiscount ==
    Derives =>
        /\ discountPercent # Null =>
              /\ 0 < discountPercent
              /\ discountPercent <= 100
              /\ dealPrice > 0
              /\ originalPrice > dealPrice
              /\ Nearest(discountPercent, dealPrice, originalPrice)
        /\ (dealPrice > 0 /\ originalPrice > dealPrice) =>
              IF 200 * (originalPrice - dealPrice) < originalPrice
              THEN discountPercent = Null
              ELSE discountPercent # Null

\* C3: extractDiscount has derived 20 from dealPrice 80 and originalPrice 100
C3_Derived20 ==
    /\ Derives
    /\ dealPrice = Units(80)
    /\ originalPrice = Units(100)
    /\ discountPercent = 20

\* the positions after the digits of a phrase "N% off" or "N% discount"
PhraseEnds(s) ==
    {e \in 2..(Len(s) + 1) : IsDigit(s[e - 1]) /\ PercentAt(s, SkipSpaces(s, e))}

RECURSIVE RunStart(_, _)
\* the first position of the run of digits that ends before e
RunStart(s, e) == IF e > 1 /\ IsDigit(s[e - 1]) THEN RunStart(s, e - 1) ELSE e

\* the text holds one phrase "N% off" or "N% discount"
OnePhrase(s) == Cardinality(PhraseEnds(s)) = 1

\* the decimal integer N of the first phrase of the text
StatedN(s) ==
    DigitsValue(Slice(s, RunStart(s, Least(PhraseEnds(s))), Least(PhraseEnds(s))), 0)

\* C4 as stated: for a text with an explicit phrase "N% off" or "N% discount",
\* extractDiscount returns N if 1 <= N <= 100; for N outside this range the
\* result is the price-derived value or null.
C4_AsStated ==
    (pc = "returned" /\ OnePhrase(fullText)) =>
        IF 1 <= StatedN(fullText) /\ StatedN(fullText) <= 100
        THEN discountPercent = StatedN(fullText)
        ELSE discountPercent = DerivedDiscount(dealPrice, originalPrice)

\* C5 as stated: when the text holds a phrase "N% off" or "N% discount" with
\* 1 <= N <= 100, extractDiscount returns N even if dealPrice and
\* originalPrice are both present and would derive a percentage.
C5_AsStated ==
    ( /\ pc = "returned"
      /\ OnePhrase(fullText)
      /\ 1 <= StatedN(fullText)
      /\ StatedN(fullText) <= 100
      /\ dealPrice > 0
      /\ originalPrice > dealPrice ) => discountPercent = StatedN(fullText)

\* a currency marker stands somewhere in the text
HasMarker(text) ==
    \E k \in 1..Len(CURRENCY_PATTERNS) : \E i \in 1..Len(text) :
        MarkerEnd(text, i, CURRENCY_PATTERNS[k].pattern) # 0

\* C6: extractPriceWithCurrency on a text without a currency marker returns
\* price null and currency "USD"; the currency is reported even when no price
\* is found.
C6_NoMarkerDefault ==
    pc = "returned" =>
        /\ ~HasMarker(fullText) => (dealPrice = Null /\ currency = "USD")
        /\ dealPrice = Null => currency = "USD"

\* C6: extractPriceWithCurrency has returned for a text with a number and no
\* currency marker
C6_NumberNoMarker ==
    /\ pc = "returned"
    /\ \E i \in 1..Len(fullText) : IsDigit(fullText[i])
    /\ ~HasMarker(fullText)
    /\ dealPrice = Null
    /\ currency = "USD"

\* the score of the k-th category: over its keywords that occur in the
\* lower-cased text, 2 for a keyword longer than 5 characters and 1 otherwise
SumOfWeights(text, k) ==
    LET kw == CATEGORY_KEYWORDS[k].keywords
        found == {n \in 1..Len(kw) : includes(toLowerCase(text), kw[n])}
    IN  2 * Cardinality({n \in found : Len(kw[n]) > 5})
        + Cardinality({n \in found : Len(kw[n]) <= 5})

\* the categories whose score is the maximum
Highest(text) ==
    {k \in 1..Len(CATEGORY_KEYWORDS) :
        \A j \in 1..Len(CATEGORY_KEYWORDS) :
            SumOfWeights(text, j) <= SumOfWeights(text, k)}

\* C7: detectCategory returns the first category, in the declaration order of
\* CATEGORY_KEYWORDS, whose score is the maximum over all categories; a later
\* category replaces an earlier one only with a strictly higher score; the
\* result is "other" when every score is 0.
C7_FirstMaximum ==
    pc = "returned" =>
        IF \A k \in 1..Len(CATEGORY_KEYWORDS) : SumOfWeights(fullText, k) = 0
        THEN categorySlug = "other"
        ELSE categorySlug = CATEGORY_KEYWORDS[Least(Highest(fullText))].category

\* C7: detectCategory has returned the earlier of two categories that tie at
\* the maximum, above 0
C7_TieKeepsFirst ==
    /\ pc = "returned"
    /\ Cardinality(Highest(fullText)) >= 2
    /\ SumOfWeights(fullText, Least(Highest(fullText))) > 0
    /\ categorySlug = CATEGORY_KEYWORDS[Least(Highest(fullText))].category

\* C8, for the title without the spaces around it: for every raw title that
\* has at least 5 characters once trimmed, the title cleanTitle returns has at
\* least 5 characters; a shorter result is the trimmed raw title.
C8_TrimmedTitle ==
    pc = "returned" =>
        /\ length(trim(post.title)) >= 5 => length(title) >= 5
        /\ length(title) < 5 => title = trim(post.title)

\* C8 as stated: for every raw title of length >= 5, titles padded with
\* leading or trailing whitespace included, the returned title has length >= 5.
C8_AsStated == (pc = "returned" /\ length(post.title) >= 5) => length(title) >= 5

\* C8: cleanTitle has cleaned a title of at least 5 characters down to fewer
\* than 5, and returned the trimmed raw title
C8_FellBack ==
    /\ pc = "returned"
    /\ length(trim(post.title)) >= 5
    /\ length(Cleaned(post.title)) < 5
    /\ title = trim(post.title)

\* the URL matches a pattern of the merchant registry
Merchant(url) == StoreHits(url) # {}

\* the candidates that survive the denylist
Surviving(urls) == {k \in 1..Len(urls) : isProductUrl(urls[k])}

\* C9: if any surviving candidate URL matches a pattern of the merchant
\* registry, the URL extractProductUrl returns is a merchant-matching
\* candidate, even when a surviving candidate that matches none comes earlier.
C9_MerchantPreferred ==
    pc = "detectStore" =>
        \A urls \in {allUrls(post, comments)} :
        \A merchants \in {{k \in Surviving(urls) : Merchant(urls[k])}} :
            merchants # {} =>
                /\ Merchant(productUrl)
                /\ \E k \in merchants : productUrl = CleanTrailing(urls[k])

AmazonInUrl ==
    <<"h","t","t","p",":","/","/","a","m","a","z","o","n",".","i","n","/","d",
      "p","/","1","2","3">>
\* C9: extractProductUrl has returned the amazon.in URL of the body "check
\* this out http://example.com/x then http://amazon.in/dp/123"
C9_ExampleBody ==
    /\ pc = "returned"
    /\ post.selftext = ExampleBody
    /\ post.is_self
    /\ post.title = <<>>
    /\ comments = <<>>
    /\ productUrl = AmazonInUrl
    /\ store = "Amazon"

\* the raw title matches a non-deal marker, whatever the case of its letters
NonDealTitle ==
    \E n \in 1..Len(skipPatterns) : includes(toLowerCase(post.title), skipPatterns[n])

\* C10: parseRedditPost returns null for every post whose raw title matches a
\* non-deal marker, whatever the body, the link, the comments and any price or
\* discount in the text: nothing is extracted and no deal is returned.
C10_NonDealTitle ==
    NonDealTitle =>
        /\ result # "deal"
        /\ pc \in {"parseRedditPost", "returned"}
        /\ pc = "returned" => result = "null"

\* C10: parseRedditPost has returned null for the title "[Discussion] which
\* laptop should I buy" of a link post to a store, with URLs in its body
C10_DiscussionSkipped ==
    /\ pc = "returned"
    /\ post.title = DiscussionTitle
    /\ post.url = AmazonUrl
    /\ post.selftext = ExampleBody
    /\ result = "null"

\* extractProductUrl fell back to the permalink of the post: no candidate URL
\* of the body, the link, the title or the comments survived
FellBack ==
    /\ ProductCandidates(allUrls(post, comments)) = {}
    /\ productUrl = RedditOrigin \o post.permalink

\* parseRedditPost has returned, and went past the test of the title
Parsed == pc = "returned" /\ ~SkipPost(post.title)

\* C11: parseRedditPost returns null whenever no price is extracted, no
\* discount is extracted, and extractProductUrl fell back to the permalink of
\* the post.
C11_NoInfoIsNull ==
    (Parsed /\ dealPrice = Null /\ discountPercent = Null /\ FellBack)
        => result = "null"

\* C11: parseRedditPost has returned null for a post past the title test with
\* no price, no discount and the permalink as its URL
C11_PermalinkOnly ==
    /\ Parsed
    /\ dealPrice = Null
    /\ discountPercent = Null
    /\ FellBack
    /\ result = "null"

\* the fetch of the Open Graph image failed: a network error, the abort of
\* the timer, a body that cannot be read, or a status that is not a success
FetchFailed ==
    \/ response.kind \in {"error", "abort", "text"}
    \/ response.kind = "page" /\ ~response.ok

\* C12: image resolution never fails the parse: no promise of fetchOgImage,
\* extractImageUrl or parseRedditPost rejects; a failed fetch of the Open
\* Graph image makes fetchOgImage return null, which leaves imageUrl as it
\* was before the fetch (null when the post gave no image), and
\* parseRedditPost goes on to its return.
C12_ImageNeverFails ==
    /\ result # "rejected"
    /\ response # NoResponse => pc \in {"resume", "returned"}
    /\ FetchFailed =>
          /\ fetchOgImage(response) = NoString
          /\ imageUrl = PostImage(post)
          /\ Falsy(PostImage(post)) => imageUrl = NoString
    /\ (pc = "returned" /\ response # NoResponse) => result \in {"null", "deal"}

\* C12: parseRedditPost has returned a deal with imageUrl null after a network
\* error of the fetch of the Open Graph image
C12_ErrorGivesNull ==
    /\ pc = "returned"
    /\ response.kind = "error"
    /\ result = "deal"
    /\ imageUrl = NoString

\* extractProductUrl has returned
UrlReturned == pc \in {"detectStore", "returned"} /\ productUrl # NoString

\* C13: productUrl is never empty: extractProductUrl returns a non-empty
\* string, and when no candidate URL survives the two selection passes it
\* returns exactly "https://reddit.com" followed by the permalink of the post.
C13_NeverEmpty ==
    pc = "detectStore" =>
        /\ productUrl # NoString
        /\ Len(productUrl) > 0
        /\ ProductCandidates(allUrls(post, comments)) = {} =>
              productUrl = RedditOrigin \o post.permalink

\* C13: extractProductUrl has returned the permalink for a post whose
\* candidate URLs are all rejected
C13_AllRejected ==
    /\ UrlReturned
    /\ allUrls(post, comments) # <<>>
    /\ ProductCandidates(allUrls(post, comments)) = {}
    /\ productUrl = RedditOrigin \o post.permalink

\* C14 as stated: every ParsedDeal returned by parseRedditPost has a
\* non-empty title, for every raw title, an empty or whitespace-only one
\* included.
C14_AsStated ==
    (pc = "returned" /\ result = "deal") => (title # NoString /\ Len(title) > 0)

\* what parseRedditPost returns for post p and comments cs when called alone,
\* with the image left out
Alone(p, cs) ==
    IF SkipPost(p.title) THEN NullValue
    ELSE Returned(p, Extracted(p, cs), NoString)

\* Alone, for the posts and the comments of the batches
AloneOn ==
    [p \in BatchPosts |->
        [cs \in {f.comments : f \in CommentFetches} |-> Alone(p, cs)]]

\* the same value, but for the image of a deal
SameButImage(v, w) ==
    /\ v.kind = w.kind
    /\ v.kind = "deal" =>
          [v.deal EXCEPT !.imageUrl = NoString] = [w.deal EXCEPT !.imageUrl = NoString]

\* the callback of post i failed: its comment fetch rejected, or its parse
\* threw
Failed(i) == tasks[i].pc = "settled" /\ tasks[i].caught

\* the indexes of the posts whose callback returned a deal
WithDeal == {i \in DOMAIN tasks : tasks[i].value.kind = "deal"}

\* no promise of the batch rejects; once parseRedditPosts has resolved, a post
\* that failed has no record, every other post has the record its own parse
\* gives, and the list holds these records in the order of the posts
Isolated ==
    /\ deals.state # "rejected"
    /\ \A i \in DOMAIN tasks : tasks[i].value.kind # "rejected"
    /\ \A i \in DOMAIN tasks : Failed(i) => tasks[i].value = NullValue
    /\ deals.state = "resolved" =>
          /\ \A i \in DOMAIN tasks : tasks[i].pc = "settled"
          /\ \A i \in DOMAIN tasks :
                ~Failed(i) =>
                    SameButImage(tasks[i].value, AloneOn[posts[i]][tasks[i].comments])
          /\ Len(deals.list) = Cardinality(WithDeal)
          /\ \A i \in WithDeal :
                deals.list[Cardinality({j \in WithDeal : j <= i})] = tasks[i].value.deal

\* C15: per-post failure isolation in parseRedditPosts: if the comment fetch
\* or the parse of one post throws or rejects, that post contributes no
\* record, the callbacks of the other posts run to their end unaffected, and
\* parseRedditPosts resolves, and never rejects, with the records of the
\* other posts.
C15_FailureIsolated == []Isolated /\ <>(deals.state = "resolved")

\* C15: parseRedditPosts has resolved with one record, of a batch of two
\* posts in which the callback of the other post failed
C15_OneFailedOneDeal ==
    /\ deals.state = "resolved"
    /\ Len(posts) = 2
    /\ \E i \in DOMAIN tasks : Failed(i)
    /\ Len(deals.list) = 1
    /\ \E j \in DOMAIN tasks : ~Failed(j) /\ deals.list = <<tasks[j].value.deal>>

\* the end of the host of a URL: the first "/" or "?" after "://", or the end
HostEnd(url, from) ==
    Least({k \in from..(Len(url) + 1) : k = Len(url) + 1 \/ url[k] \in {"/", "?"}})

\* the scheme and the host of a URL, its path and its query left out
SchemeEnd(url) == Least({k \in 1..Len(url) : HasAt(url, k, <<":","/","/">>, FALSE)}) + 3
HostUrl(url) == SubSeq(url, 1, HostEnd(url, SchemeEnd(url)) - 1)

\* C16 as stated: the result of detectStore is independent of the path and
\* the query of the URL: a URL yields the store its scheme and host alone
\* yield, which is null for a host of no registered merchant.
C16_AsStated ==
    pc = "returned" => store = detectStore(HostUrl(productUrl))

\* C17 as stated: the URL extractProductUrl returns, unless it is the
\* permalink fallback, is never a rejected URL: after the stripping of its
\* trailing brackets it matches no pattern of the denylist and does not
\* contain "reddit.com".
C17_AsStated ==
    (UrlReturned /\ productUrl # RedditOrigin \o post.permalink)
        => isProductUrl(productUrl)

RECURSIVE CommentSources(_)
\* for each comment in list order, its markdown links, then its bare URLs
CommentSources(cs) ==
    IF cs = <<>> THEN <<>>
    ELSE <<MarkdownUrls(Head(cs), 1),
           PlainUrls(Head(cs), 1, {")", "]", "<", ">"}, TRUE)>>
         \o CommentSources(Tail(cs))

\* the sources of candidates in order: the markdown links of the body, its
\* bare URLs, the link of a link post, the URLs of the title, the comments
Sources(p, cs) ==
    <<MarkdownUrls(p.selftext, 1),
      PlainUrls(p.selftext, 1, {")", "]", "<", ">"}, TRUE),
      IF ~p.is_self /\ p.url # <<>> THEN <<p.url>> ELSE <<>>,
      PlainUrls(p.title, 1, {")", "]"}, FALSE)>>
    \o CommentSources(cs)

\* a candidate qualifies in the first pass, in the second pass
Pass1(url) == isProductUrl(url) /\ Merchant(url)
Pass2(url) == isProductUrl(url)

\* the places <<source, rank>> of the candidates that qualify
Places1(src) ==
    {pl \in UNION {{<<n, k>> : k \in 1..Len(src[n])} : n \in 1..Len(src)} :
        Pass1(src[pl[1]][pl[2]])}
Places2(src) ==
    {pl \in UNION {{<<n, k>> : k \in 1..Len(src[n])} : n \in 1..Len(src)} :
        Pass2(src[pl[1]][pl[2]])}

\* pl comes no later than ql in the order of the sources
Earlier(pl, ql) == pl[1] < ql[1] \/ (pl[1] = ql[1] /\ pl[2] <= ql[2])

\* the earliest of the places
Earliest(places) == CHOOSE pl \in places : \A ql \in places : Earlier(pl, ql)

\* the result is the earliest candidate that qualifies in the first pass,
\* else in the second, else the permalink
EarliestOf(src, places1, places2) ==
    IF places1 # {}
    THEN productUrl = CleanTrailing(src[Earliest(places1)[1]][Earliest(places1)[2]])
    ELSE IF places2 # {}
    THEN productUrl = CleanTrailing(src[Earliest(places2)[1]][Earliest(places2)[2]])
    ELSE productUrl = RedditOrigin \o post.permalink

\* C18: extractProductUrl orders its candidates as: markdown links of the
\* body, bare URLs of the body, the link of a link post, URLs of the title,
\* then for each comment in list order its markdown links and its bare URLs;
\* the result is the earliest candidate of this order that qualifies in the
\* first pass, else the earliest that qualifies in the second pass.
C18_SourceOrder ==
    UrlReturned =>
        \A src \in {Sources(post, comments)} :
            EarliestOf(src, Places1(src), Places2(src))

\* C18: a body URL has won over the link of a link post that qualifies in the
\* same pass, and the comments hold URLs that qualify too
C18_BodyBeforeLink ==
    /\ UrlReturned
    /\ ~post.is_self
    /\ Pass1(post.url)
    /\ \E k \in 1..Len(comments) : \E u \in {TextUrls(comments[k])} :
           \E n \in 1..Len(u) : Pass1(u[n])
    /\ \E u \in {TextUrls(post.selftext)} :
           \E n \in 1..Len(u) : Pass1(u[n]) /\ productUrl = u[n]
    /\ productUrl # post.url

\* C19 as stated: every non-null dealPrice and originalPrice that
\* extractPrices returns, in pair mode or in the single-price fallback, is
\* > 0 and < 10,000,000.
C19_AsStated ==
    pc = "extractDiscount" =>
        /\ dealPrice # Null => InRange(dealPrice)
        /\ originalPrice # Null => InRange(originalPrice)

\* the amount is written in the text right after the marker made of the
\* letter and "$"
WrittenWith(text, letter, amount) ==
    \E i \in 1..Len(text) :
        /\ HasAt(text, i, <<letter, "$">>, TRUE)
        /\ AmountAfter(text, i + 2) # 0
        /\ AmountAt(text, AmountAfter(text, i + 2)) = amount

\* every "$" of the text follows the letter
DollarsAfter(text, letter) ==
    \A i \in 1..Len(text) :
        text[i] = "$" => (i > 1 /\ UpperChar(text[i - 1]) = letter)

\* C20 as stated: single-price mode reports the currency whose marker is
\* attached to the extracted amount: an amount written with "C$" is reported
\* as CAD and one written with "A$" as AUD.
C20_AsStated ==
    (pc = "returned" /\ dealPrice # Null) =>
        /\ (DollarsAfter(fullText, "C") /\ WrittenWith(fullText, "C", dealPrice))
              => currency = "CAD"
        /\ (DollarsAfter(fullText, "A") /\ WrittenWith(fullText, "A", dealPrice))
              => currency = "AUD"

\* extractImageUrl has chosen among preview and thumbnail, and no response
\* of the product's page has come yet
Selected == pc \in {"fetchOgImage", "resume"} /\ response = NoResponse

\* the resolution at k is the first of the image whose width is in [300, 800]
FirstInRange(rs, k) ==
    /\ rs[k].width >= 300 /\ rs[k].width <= 800
    /\ \A j \in 1..(k - 1) : rs[j].width < 300 \/ rs[j].width > 800

\* C21: before any network step, the image of a post with preview metadata is
\* the first resolution of its first image whose width is in [300, 800], or
\* the source of that image when no resolution qualifies; the thumbnail is
\* used only with no preview image and when it starts with "http"; otherwise
\* no image is selected.  URLs of the preview have &amp; written as &.
C21_Priority ==
    Selected =>
        \A pv \in {post.preview} :
            IF pv # NoPreview
            THEN \/ \E k \in DOMAIN pv.resolutions :
                      /\ FirstInRange(pv.resolutions, k)
                      /\ imageUrl = Unescape(pv.resolutions[k].url, 1)
                 \/ /\ \A k \in DOMAIN pv.resolutions :
                           ~FirstInRange(pv.resolutions, k)
                    /\ imageUrl = Unescape(pv.source, 1)
            ELSE IF HasAt(post.thumbnail, 1, Http, FALSE)
                 THEN imageUrl = post.thumbnail
                 ELSE imageUrl = NoString

\* C21: a preview whose first resolution is too small and whose second fits,
\* on a post with an http thumbnail: the second resolution is the image
C21_SecondFits ==
    /\ Selected
    /\ post.preview # NoPreview
    /\ Len(post.preview.resolutions) = 2
    /\ post.preview.resolutions[1].width = 299
    /\ post.preview.resolutions[2].width = 800
    /\ post.thumbnail = PlainThumbnail
    /\ imageUrl = Unescape(ExternalUrl, 1)

\* the image is missing, or one of Reddit's placeholders
Placeholder(img) ==
    img = NoString \/ includes(img, ExternalPreview) \/ includes(img, RedditMedia)

\* a step in which the page of the product is fetched: it is the first
\* fetch for the post, the image selected from preview and thumbnail is
\* missing or a placeholder, and productUrl is a product URL and not the
\* permalink fallback; the image of the page replaces the selected one only
\* when there is one
GuardedFetch ==
    response' # response =>
        /\ response = NoResponse
        /\ imageUrl = PostImage(post)
        /\ Placeholder(imageUrl)
        /\ isProductUrl(productUrl)
        /\ productUrl # RedditOrigin \o post.permalink
        /\ \A ogImage \in {fetchOgImage(response')} :
              imageUrl' = IF ogImage # NoString THEN ogImage ELSE imageUrl

\* C22: the fetch of the Open Graph image is attempted at most once for a
\* post, only when no image was selected or the selected one contains
\* "external-preview" or "redditmedia", and only for a productUrl that is a
\* product URL, never for the permalink fallback; its result replaces the
\* selected image only when it is non-null, else the selected image is kept.
C22_FetchGuarded == [][GuardedFetch]_vars

\* C22: the fetch has yielded nothing and the placeholder thumbnail is kept
C22_PlaceholderKept ==
    /\ pc = "resume"
    /\ response # NoResponse
    /\ fetchOgImage(response) = NoString
    /\ imageUrl = MediaThumbnail

\* C23 as stated: once fetchOgImage has started it eventually returns, given
\* that the timer fires when it can, even when the server stalls before the
\* headers or while the body is read.
C23_AsStated == (pc = "awaitFetch") ~> (pc = "returned")

\* C24 as stated: for a post whose title has no non-deal marker,
\* parseRedditPost returns a ParsedDeal if and only if a dealPrice was
\* extracted (non-null, whatever its value), or a discountPercent was, or
\* productUrl is not the permalink fallback; and productUrl contains
\* "reddit.com" exactly when the fallback was used.
C24_AsStated ==
    (pc = "returned" /\ ~SkipPost(post.title)) =>
        /\ result = "deal" <=>
              \/ dealPrice # Null
              \/ discountPercent # Null
              \/ productUrl # RedditOrigin \o post.permalink
        /\ includes(productUrl, RedditCom) <=>
              productUrl = RedditOrigin \o post.permalink

\* C28: parseRedditPost fetches the page of the product only for a post for
\* which it returns a ParsedDeal: a post it rejects, for its title or at the
\* final gate, has had no fetch, and while a response has been received the
\* post is not one with a non-deal title nor one without deal information.
C28_NoFetchForRejected ==
    /\ result = "null" => response = NoResponse
    /\ response # NoResponse =>
          /\ ~SkipPost(post.title)
          /\ ~NoDealInfo(dealPrice, discountPercent, productUrl)
          /\ pc = "returned" => result = "deal"

\* C28: a post with no image, which would want the image of a page, is
\* rejected at the final gate and no fetch has been made
C28_GateRejected ==
    /\ pc = "returned"
    /\ result = "null"
    /\ ~SkipPost(post.title)
    /\ imageUrl = NoString
    /\ productUrl = RedditOrigin \o post.permalink
    /\ response = NoResponse

\* the callback of post i can take its next step
CanStep(i) ==
    \/ ENABLED FetchComments(i)
    \/ ENABLED TaskParse(i)
    \/ ENABLED TaskFetchOgImage(i)

\* one callback for each post; with a fetcher it has called fetchComments
\* once, with the id of its post, and without one it has called nothing and
\* has no comments; a callback that has not returned can step, whatever the
\* other callbacks have come to
Dispatched ==
    /\ Len(tasks) = Len(posts)
    /\ \A i \in DOMAIN tasks :
          /\ tasks[i].fetcher => tasks[i].asked = <<posts[i].id>>
          /\ ~tasks[i].fetcher => tasks[i].asked = <<>> /\ tasks[i].comments = <<>>
          /\ tasks[i].pc = "fetchComments" =>
                tasks[i].fetcher /\ tasks[i].value = NoValue
          /\ tasks[i].pc # "settled" => CanStep(i)

\* a step of the callback of post i: the comment fetch completes, to the
\* parse or to the catch; the parse runs, with the comments fetched, to the
\* await of the image or to its return; the image comes and the parse returns
InOrder(i) ==
    \/ /\ tasks[i].pc = "fetchComments"
       /\ \/ tasks'[i].pc = "parseRedditPost"
          \/ tasks'[i].pc = "settled" /\ tasks'[i].caught
    \/ /\ tasks[i].pc = "parseRedditPost"
       /\ tasks'[i].pc \in {"fetchOgImage", "settled"}
       /\ tasks'[i].comments = tasks[i].comments
    \/ /\ tasks[i].pc = "fetchOgImage"
       /\ tasks'[i].pc = "settled"
       /\ tasks'[i].value.kind \in {"deal", "null"}

EachInOrder ==
    \A i \in DOMAIN tasks : tasks'[i] # tasks[i] => InOrder(i)

\* C26: each callback of parseRedditPosts runs the comment fetch, then the
\* parse, whose image step comes last: with a fetcher, fetchComments is called
\* exactly once for each post, with the id of that post, and completes before
\* the parse of that post starts; with no fetcher there is no comment fetch
\* and the parse runs with no comments; there is one callback for each post,
\* and none waits for another.
C26_StepsInOrder == []Dispatched /\ [][EachInOrder]_vars

\* C26: of two posts handed over with a fetcher, the first still awaits its
\* comments while the parse of the second, with its comments, awaits the image
C26_SecondAhead ==
    /\ Len(posts) = 2
    /\ tasks[1].pc = "fetchComments"
    /\ tasks[1].asked = <<posts[1].id>>
    /\ tasks[2].pc = "fetchOgImage"
    /\ tasks[2].asked = <<posts[2].id>>
    /\ posts[1].id # posts[2].id

\* the indexes, in the order of the posts, of the callbacks with a deal
RECURSIVE DealIndexes(_, _)
DealIndexes(ts, i) ==
    IF i > Len(ts) THEN <<>>
    ELSE (IF ts[i].value.kind = "deal" THEN <<i>> ELSE <<>>) \o DealIndexes(ts, i + 1)

\* C27: parseRedditPosts returns only after every callback has returned, with
\* the ParsedDeals of the posts whose callback produced one, each exactly
\* once and in the order of the posts, whatever the order in which the
\* callbacks returned; a post skipped or failed has no record.
C27_InputOrder ==
    deals.state # "pending" =>
        /\ deals.state = "resolved"
        /\ \A i \in DOMAIN tasks : tasks[i].pc = "settled"
        /\ \A ix \in {DealIndexes(tasks, 1)} :
              /\ Len(deals.list) = Len(ix)
              /\ \A k \in DOMAIN ix :
                    /\ deals.list[k] = tasks[ix[k]].value.deal
                    /\ deals.list[k].redditPostId = posts[ix[k]].id
              /\ \A i \in DOMAIN tasks :
                    (tasks[i].value.kind # "deal" \/ tasks[i].caught) =>
                        \A k \in DOMAIN ix : ix[k] # i

\* C27: two posts with a deal each, the callback of the second returned
\* before that of the first, and the records are in the order of the posts
C27_LateFirst ==
    /\ deals.state = "resolved"
    /\ Len(posts) = 2
    /\ posts[1].id # posts[2].id
    /\ tasks[1].at = 2
    /\ tasks[2].at = 1
    /\ Len(deals.list) = 2
    /\ deals.list[1].redditPostId = posts[1].id
    /\ deals.list[2].redditPostId = posts[2].id

\* the deals of the log that were handled in the given way
HandledAs(how) == {i \in DOMAIN job.log : job.log[i].how = how}

\* a call of classifyDeal starts
CallStarts == api'.inFlight > api.inFlight

\* a call of classifyDeal starts only when the 4 s delay has completed since
\* the last call returned
DelayedCall == CallStarts => api.delayed

\* no deal skipped as clean was given to classifyDeal
NoCallForSkipped ==
    \A i \in HandledAs("skipped") :
        \A c \in DOMAIN api.asked : api.asked[c] # job.log[i].id

\* C25: in a run of the job at most one call of classifyDeal is in flight,
\* between the return of a call and the start of the next the 4 s delay
\* completes, and a deal skipped as clean makes no call.
C25_SerialLoop ==
    /\ [](api.inFlight <= 1)
    /\ [][DelayedCall]_vars
    /\ []NoCallForSkipped

\* C25 (witness): the second call of a run is in flight, after a clean deal
\* was skipped.
C25_SecondCall ==
    /\ api.inFlight = 1
    /\ Len(api.asked) = 2
    /\ HandledAs("skipped") # {}

\* where the deals of the current batch stand in the log
LogOf(k) == job.log[Len(job.log) - Len(job.deals) + k]

\* the batch has handled each deal it fetched once, in one of the three ways,
\* and left it processed
BatchAccounted ==
    /\ Handled(job.result) = Len(job.deals)
    /\ job.result.categoriesUpdated <= job.result.processed
    /\ Len(job.log) >= Len(job.deals)
    /\ \A k \in DOMAIN job.deals :
          /\ LogOf(k).id = job.deals[k].id
          /\ db.Deal[job.deals[k].id].titleProcessedAt
    /\ \A how \in {"processed", "failed", "skipped"} :
          job.result[how] =
              Cardinality({k \in DOMAIN job.deals : LogOf(k).how = how})

\* no deal is handled twice in a run
NeverAgain ==
    \A i, j \in DOMAIN job.log : job.log[i].id = job.log[j].id => i = j

\* the category of a row changes only to the suggested category, which is in
\* the Category table and is not the one the deal was fetched with
CategoryWritten ==
    \A id \in DOMAIN db.Deal :
        db'.Deal[id].slug # db.Deal[id].slug =>
            /\ id = job.deals[job.k].id
            /\ db'.Deal[id].slug = job.classification.suggestedCategory
            /\ db'.Deal[id].slug \in db.Category
            /\ db'.Deal[id].slug # job.deals[job.k].slug

\* C29: a batch that returns has left every deal it fetched with
\* titleProcessedAt set and counted it in exactly one of skipped, processed
\* and failed, with categoriesUpdated <= processed; no deal, failed ones
\* included, is fetched by a later batch; a category is written only when
\* the suggested slug is in the category table and differs from the deal's.
C29_BatchAccounting ==
    /\ [](job.pc = "batchReturned" => BatchAccounted)
    /\ []NeverAgain
    /\ [][CategoryWritten]_vars

\* C29 (witness): a batch has returned with a deal skipped, a deal failed and
\* a category changed.
C29_MixedBatch ==
    /\ job.pc = "batchReturned"
    /\ job.result.skipped > 0
    /\ job.result.failed > 0
    /\ job.result.categoriesUpdated > 0

\* the run is over
Over == job.pc \in {"returned", "rejected"}

\* what processAllUnclassifiedDeals returns: every deal that was to do was
\* handled once, the totals count them, and every batch but the last handled
\* BATCH_SIZE deals
AllHandled ==
    /\ Handled(job.total) = Cardinality(job.todo)
    /\ Len(job.log) = Cardinality(job.todo)
    /\ {job.log[i].id : i \in DOMAIN job.log} = job.todo
    /\ \A b \in DOMAIN job.sizes :
          (job.sizes[b] = BATCH_SIZE) <=> (b < Len(job.sizes))

\* C30: processAllUnclassifiedDeals ends; it runs batches while a batch
\* handled exactly BATCH_SIZE deals, and it returns when each deal that was
\* active and unprocessed at the start was handled exactly once, with totals
\* whose processed + failed + skipped is the number of these deals.
C30_Terminates ==
    /\ (job.all ~> Over)
    /\ [](job.pc = "returned" => AllHandled)

\* C30 (witness): the run has returned after more than one batch, the last
\* one not empty.
C30_SeveralBatches ==
    /\ job.pc = "returned"
    /\ Len(job.sizes) = 2
    /\ job.sizes[2] > 0

====
